---- MODULE Spec2Model ----
(***************************************************************************)
(* nynoflow: the Flow orchestrator (completion, retry loop, auto-fixer     *)
(* loop) on top of a memory backend that mirrors an in-memory message      *)
(* history, and the token-bounded cutoff of that history.                  *)
(***************************************************************************)
EXTENDS Integers, Sequences, FiniteSets, TLC

VARIABLES providers, memory_kind, message_history, backend, next_id, last,
          persist, alive, objects

vars == <<providers, memory_kind, message_history, backend, next_id, last,
          persist, alive, objects>>

\* persist is the flag the memory object was constructed with (BaseMemory
\* defaults it to True); alive tells whether a memory object is bound to the
\* conversation, or the last one was discarded and none was opened since.
\* objects holds the memory objects that share one stored document, each
\* with its own in-memory list and its position inside insert_message; it
\* is empty where a single object is used.

\* ------------------------------------------------------------------ bounds
\* Number of ChatMessage objects (uuid4 ids) created in one behaviour.
MaxId == 4
\* Largest retries_on_service_error a provider is configured with.
MaxRetries == 2
\* Largest auto_fixer_retries passed to completion_with_auto_fixer.
MaxFixRetries == 2
\* Longest scripted sequence of provider answers; the last entry repeats for
\* every later call (a mock's side_effect list).
MaxScript == 2

\* --------------------------------------------------------------- messages
ChatMessage(id, provider_id, content, role, temporary) ==
    [id |-> id, provider_id |-> provider_id, content |-> content,
     role |-> role, temporary |-> temporary]

Prompts == {"Hi", "What is the capital of France?"}
Responses == {"Paris"}
FixRequest == "Please do this fix and that fix"

\* The tokenizer's encoding is an external collaborator: the number of
\* tokens of each text used in the model.
EncodeLen(text) ==
    CASE text = "Hi" -> 1
      [] text = "Paris" -> 1
      [] text = "Rome it is" -> 3
      [] text = "What is the capital of France?" -> 7
      [] text = "Please do this fix and that fix" -> 7
      [] text = "user" -> 1
      [] text = "assistant" -> 1
      [] OTHER -> 1

\* Encoding.encode(text) with its default arguments refuses a text that
\* contains a special token of the encoding and raises ValueError.
SpecialPrompts == {"<|endoftext|>"}

EncodeRaises(text) == text \in SpecialPrompts

\* ------------------------------------------------------------- tokenizers
OpenAITokenizer(model) ==
    [kind |-> "openai",
     tokens_per_message |-> IF model = "gpt-3.5-turbo-0301" THEN 4 ELSE 3]

RECURSIVE CalculateMessagesTokensLoop(_, _, _)
CalculateMessagesTokensLoop(tokenizer, messages, i) ==
    IF i > Len(messages) THEN 0
    ELSE tokenizer.tokens_per_message
         + EncodeLen(messages[i].content)
         + EncodeLen(messages[i].role)
         + CalculateMessagesTokensLoop(tokenizer, messages, i + 1)

\* Mutant: the reply priming is not counted.
CalculateMessagesTokensNoPriming(tokenizer, messages) ==
    CalculateMessagesTokensLoop(tokenizer, messages, 1)

CalculateMessagesTokens(tokenizer, messages) ==
    CalculateMessagesTokensLoop(tokenizer, messages, 1) + 3

TokenCount(tokenizer, messages) == CalculateMessagesTokens(tokenizer, messages)

\* token_count raises when the encoding refuses the content of a message.
TokenCountRaises(tokenizer, messages) ==
    \E i \in 1..Len(messages) : EncodeRaises(messages[i].content)

\* ----------------------------------------------------------------- cutoff
\* Mutant: `continue` in place of `break`, an oversized message is skipped.
RECURSIVE CutoffLoopSkipsOversized(_, _, _, _, _, _)
CutoffLoopSkipsOversized(history, i, token_count, acc, token_limit, tokenizer) ==
    IF i = 0 THEN acc
    ELSE LET count == token_count + TokenCount(tokenizer, <<history[i]>>)
         IN IF count > token_limit
            THEN CutoffLoopSkipsOversized(history, i - 1, token_count, acc,
                                          token_limit, tokenizer)
            ELSE CutoffLoopSkipsOversized(history, i - 1, count,
                                          Append(acc, history[i]),
                                          token_limit, tokenizer)

\* Mutant: `>=` in place of `>`, a message that fits exactly is left out.
RECURSIVE CutoffLoopStrict(_, _, _, _, _, _)
CutoffLoopStrict(history, i, token_count, acc, token_limit, tokenizer) ==
    IF i = 0 THEN acc
    ELSE LET count == token_count + TokenCount(tokenizer, <<history[i]>>)
         IN IF count >= token_limit
            THEN acc
            ELSE CutoffLoopStrict(history, i - 1, count, Append(acc, history[i]),
                                  token_limit, tokenizer)

\* Mutant: the newest message is kept whatever it costs.
RECURSIVE CutoffLoopKeepsNewest(_, _, _, _, _, _)
CutoffLoopKeepsNewest(history, i, token_count, acc, token_limit, tokenizer) ==
    IF i = 0 THEN acc
    ELSE LET count == token_count + TokenCount(tokenizer, <<history[i]>>)
         IN IF count > token_limit /\ i < Len(history)
            THEN acc
            ELSE CutoffLoopKeepsNewest(history, i - 1, count,
                                       Append(acc, history[i]),
                                       token_limit, tokenizer)

RECURSIVE CutoffLoop(_, _, _, _, _, _)
CutoffLoop(history, i, token_count, acc, token_limit, tokenizer) ==
    IF i = 0 THEN acc
    ELSE LET count == token_count + TokenCount(tokenizer, <<history[i]>>)
         IN IF count > token_limit
            THEN acc
            ELSE CutoffLoop(history, i - 1, count, Append(acc, history[i]),
                            token_limit, tokenizer)

GetMessageHistoryUptoTokenLimit(history, token_limit, tokenizer) ==
    CutoffLoop(history, Len(history), 0, <<>>, token_limit, tokenizer)

\* Whether the walk of the cutoff reaches, before it breaks, a message whose
\* token count raises; the exception then leaves the method.
RECURSIVE CutoffRaisesLoop(_, _, _, _, _)
CutoffRaisesLoop(history, i, token_count, token_limit, tokenizer) ==
    IF i = 0 THEN FALSE
    ELSE IF TokenCountRaises(tokenizer, <<history[i]>>) THEN TRUE
    ELSE LET count == token_count + TokenCount(tokenizer, <<history[i]>>)
         IN IF count > token_limit
            THEN FALSE
            ELSE CutoffRaisesLoop(history, i - 1, count, token_limit, tokenizer)

GetMessageHistoryUptoTokenLimitRaises(history, token_limit, tokenizer) ==
    CutoffRaisesLoop(history, Len(history), 0, token_limit, tokenizer)

\* ------------------------------------------------------- memory backends
MemoryKinds == {"ephemeral", "file", "redis", "sql"}

ChatId == "chat-1"

\* cattrs.unstructure / cattrs.structure of a ChatMessage: the private
\* attribute _id is stored under the key "_id".
MessageKeys == {"provider_id", "content", "role", "temporary", "_id"}

Unstructure(msg) ==
    [k \in MessageKeys |-> IF k = "_id" THEN msg.id ELSE msg[k]]

Structure(data) ==
    ChatMessage(data["_id"], data["provider_id"], data["content"],
                data["role"], data["temporary"])

MessageRecord(msg) ==
    [id |-> msg.id, chat_id |-> ChatId, message |-> Unstructure(msg)]

\* The set of the elements of a list (x in list).
ElementsOf(seq) == {seq[i] : i \in 1..Len(seq)}

\* list.remove(x): drop the first element equal to x.
RECURSIVE IndexOf(_, _, _)
IndexOf(seq, x, i) ==
    IF i > Len(seq) THEN 0
    ELSE IF seq[i] = x THEN i ELSE IndexOf(seq, x, i + 1)

RemoveAt(seq, i) == SubSeq(seq, 1, i - 1) \o SubSeq(seq, i + 1, Len(seq))

\* Mutant: equality that ignores the id of a message.
ListRemoveIgnoringId(seq, x) ==
    LET blind(e) == IF "_id" \in DOMAIN e THEN [e EXCEPT !["_id"] = 0]
                    ELSE [e EXCEPT !["id"] = 0]
        found == {i \in 1..Len(seq) : blind(seq[i]) = blind(x)}
    IN IF found = {} THEN seq
       ELSE RemoveAt(seq, CHOOSE i \in found : \A j \in found : i <= j)

ListRemove(seq, x) == RemoveAt(seq, IndexOf(seq, x, 1))

\* The backend representation a freshly constructed memory object leaves
\* behind (load_message_history on a conversation without stored data).
EmptyBackend(kind) ==
    [exists |-> kind \in {"file", "sql"}, entries |-> <<>>]

InsertMessageBackend(kind, store, msg) ==
    CASE kind = "ephemeral" -> [raised |-> "none", backend |-> store]
      [] kind = "file" ->
            IF ~store.exists
            THEN [raised |-> "FileNotFoundError", backend |-> store]
            ELSE [raised |-> "none",
                  backend |-> [store EXCEPT !.entries =
                      Append(store.entries, Unstructure(msg))]]
      [] kind = "redis" ->
            [raised |-> "none",
             backend |-> [store EXCEPT !.exists = TRUE,
                          !.entries = <<Unstructure(msg)>> \o store.entries]]
      [] kind = "sql" ->
            IF \E i \in 1..Len(store.entries) : store.entries[i].id = msg.id
            THEN [raised |-> "IntegrityError", backend |-> store]
            ELSE [raised |-> "none",
                  backend |-> [store EXCEPT !.entries =
                      Append(store.entries, MessageRecord(msg))]]

RemoveMessageBackend(kind, store, msg) ==
    CASE kind = "ephemeral" -> [raised |-> "none", backend |-> store]
      [] kind = "file" ->
            IF ~store.exists
            THEN [raised |-> "FileNotFoundError", backend |-> store]
            ELSE IF IndexOf(store.entries, Unstructure(msg), 1) = 0
            THEN [raised |-> "ValueError", backend |-> store]
            ELSE [raised |-> "none",
                  backend |-> [store EXCEPT !.entries =
                      ListRemove(store.entries, Unstructure(msg))]]
      [] kind = "redis" ->
            LET i == IndexOf(store.entries, Unstructure(msg), 1)
                entries == IF i = 0 THEN store.entries
                           ELSE RemoveAt(store.entries, i)
            IN [raised |-> "none",
                backend |-> [store EXCEPT !.exists = entries # <<>>,
                                          !.entries = entries]]
      [] kind = "sql" ->
            [raised |-> "none",
             backend |-> [store EXCEPT !.entries =
                 SelectSeq(store.entries,
                     LAMBDA r : ~(r.chat_id = ChatId /\ r.id = msg.id))]]

\* The messages stored in the backend for the chat, oldest first: the file
\* document's list, the Redis list reversed, the rows of the table in the
\* order they were added (the order a query returns them in is RowOrders).
StoredMessages(kind, store) ==
    CASE kind = "file" ->
            [i \in 1..Len(store.entries) |-> Structure(store.entries[i])]
      [] kind = "redis" ->
            [i \in 1..Len(store.entries) |->
                Structure(store.entries[Len(store.entries) + 1 - i])]
      [] kind = "sql" ->
            LET rows == SelectSeq(store.entries, LAMBDA r : r.chat_id = ChatId)
            IN [i \in 1..Len(rows) |-> Structure(rows[i].message)]
      [] OTHER -> <<>>

\* A memory object: the in-memory list and the backend it mirrors.
Memory(kind, history, store) ==
    [kind |-> kind, message_history |-> history, backend |-> store,
     raised |-> "none"]

\* Mutant: the message is put at the front of the in-memory list.
InsertMessagePrepend(mem, msg) ==
    LET history == <<msg>> \o mem.message_history
        res == InsertMessageBackend(mem.kind, mem.backend, msg)
    IN [kind |-> mem.kind, message_history |-> history,
        backend |-> res.backend, raised |-> res.raised]

\* Mutant: insert_message that takes the message back when the backend raises.
InsertMessageUndoesOnError(mem, msg) ==
    LET res == InsertMessageBackend(mem.kind, mem.backend, msg)
    IN [kind |-> mem.kind,
        message_history |-> IF res.raised = "none"
                            THEN Append(mem.message_history, msg)
                            ELSE mem.message_history,
        backend |-> res.backend, raised |-> res.raised]

InsertMessage(mem, msg) ==
    LET history == Append(mem.message_history, msg)
        res == InsertMessageBackend(mem.kind, mem.backend, msg)
    IN [kind |-> mem.kind, message_history |-> history,
        backend |-> res.backend, raised |-> res.raised]

\* for msg in msgs: self._insert_message_backend(msg)
RECURSIVE InsertMessageBatchBackendLoop(_, _, _, _)
InsertMessageBatchBackendLoop(kind, store, msgs, i) ==
    IF i > Len(msgs) THEN [raised |-> "none", backend |-> store]
    ELSE LET res == InsertMessageBackend(kind, store, msgs[i])
         IN IF res.raised # "none" THEN res
            ELSE InsertMessageBatchBackendLoop(kind, res.backend, msgs, i + 1)

\* Mutant: the file document is written with the batch alone.
InsertMessageBatchBackendOverwrite(kind, store, msgs) ==
    IF kind = "file"
    THEN IF ~store.exists
         THEN [raised |-> "FileNotFoundError", backend |-> store]
         ELSE [raised |-> "none",
               backend |-> [store EXCEPT !.entries =
                   [i \in 1..Len(msgs) |-> Unstructure(msgs[i])]]]
    ELSE InsertMessageBatchBackendLoop(kind, store, msgs, 1)

\* The file backends override the batch insertion with one read-modify-write
\* (data.messages.extend(msgs)); the others keep the loop of the base class.
InsertMessageBatchBackend(kind, store, msgs) ==
    IF kind = "file"
    THEN IF ~store.exists
         THEN [raised |-> "FileNotFoundError", backend |-> store]
         ELSE [raised |-> "none",
               backend |-> [store EXCEPT !.entries =
                   store.entries \o [i \in 1..Len(msgs) |-> Unstructure(msgs[i])]]]
    ELSE InsertMessageBatchBackendLoop(kind, store, msgs, 1)

InsertMessageBatch(mem, msgs) ==
    LET history == mem.message_history \o msgs
        res == InsertMessageBatchBackend(mem.kind, mem.backend, msgs)
    IN [kind |-> mem.kind, message_history |-> history,
        backend |-> res.backend, raised |-> res.raised]

\* The orders in which a query without ORDER BY may return the rows.
RowOrders(rows) ==
    {[i \in 1..Len(rows) |-> rows[f[i]]] : f \in Permutations(1..Len(rows))}

\* Mutant: the file backends do not catch the FileNotFoundError of a missing
\* document.
LoadMessageHistoryPropagates(mem) ==
    IF mem.kind = "file" /\ ~mem.backend.exists
    THEN {[mem EXCEPT !.raised = "FileNotFoundError"]}
    ELSE IF mem.kind = "ephemeral" THEN {mem}
    ELSE {[mem EXCEPT !.message_history = rows] :
             rows \in RowOrders(StoredMessages(mem.kind, mem.backend))}

\* load_message_history: the memory objects it may leave.  EphermalMemory
\* loads nothing; the file backends read the document, or create it when it
\* is missing (the in-memory list is then left as it is); Redis reads the
\* list and reverses it; SQL reads the rows of the chat in the order the
\* database returns them.
LoadMessageHistory(mem) ==
    CASE mem.kind = "file" ->
            IF mem.backend.exists
            THEN {[mem EXCEPT !.message_history =
                       StoredMessages("file", mem.backend)]}
            ELSE {[mem EXCEPT !.backend = [exists |-> TRUE, entries |-> <<>>]]}
      [] mem.kind = "redis" ->
            {[mem EXCEPT !.message_history = StoredMessages("redis", mem.backend)]}
      [] mem.kind = "sql" ->
            {[mem EXCEPT !.message_history = rows] :
                rows \in RowOrders(StoredMessages("sql", mem.backend))}
      [] OTHER -> {mem}

\* Mutant: the file backends write an empty document when the file is
\* already gone.
CleanupRecreatesMissingFile(mem) ==
    CASE mem.kind = "file" ->
            {[mem EXCEPT !.message_history = <<>>,
                         !.backend = [exists |-> ~mem.backend.exists,
                                      entries |-> <<>>]]}
      [] mem.kind = "redis" ->
            {[mem EXCEPT !.backend = [exists |-> FALSE, entries |-> <<>>]]}
      [] mem.kind = "sql" ->
            {[mem EXCEPT !.backend.entries =
                 SelectSeq(mem.backend.entries, LAMBDA r : r.chat_id # ChatId)]}
      [] OTHER -> {mem}

\* Mutant: Redis flushes the database and SQL deletes every row of the
\* table.
CleanupDropsEveryConversation(mem) ==
    CASE mem.kind = "file" ->
            IF mem.backend.exists
            THEN {[mem EXCEPT !.message_history = <<>>,
                              !.backend = [exists |-> FALSE, entries |-> <<>>]]}
            ELSE {[mem EXCEPT !.message_history = <<>>],
                  [mem EXCEPT !.raised = "NotFound"]}
      [] mem.kind = "redis" ->
            {[mem EXCEPT !.backend =
                 [k \in DOMAIN mem.backend |->
                    IF k = "exists" THEN FALSE ELSE <<>>]]}
      [] mem.kind = "sql" ->
            {[mem EXCEPT !.backend.entries = <<>>]}
      [] OTHER -> {mem}

\* cleanup(): the memory objects it may leave.  The file backends remove the
\* file and then empty the in-memory list; removing a file that is already
\* gone succeeds on S3 (delete_object) and raises the store's not-found
\* error on GCP and Azure (blob.delete(), delete_blob()), before the list is
\* emptied.  Redis deletes the key, SQL deletes the rows of the chat, and
\* both leave the in-memory list alone.
Cleanup(mem) ==
    CASE mem.kind = "file" ->
            IF mem.backend.exists
            THEN {[mem EXCEPT !.message_history = <<>>,
                              !.backend = [exists |-> FALSE, entries |-> <<>>]]}
            ELSE {[mem EXCEPT !.message_history = <<>>],
                  [mem EXCEPT !.raised = "NotFound"]}
      [] mem.kind = "redis" ->
            {[mem EXCEPT !.backend = [mem.backend EXCEPT !.exists = FALSE,
                                                         !.entries = <<>>]]}
      [] mem.kind = "sql" ->
            {[mem EXCEPT !.backend.entries =
                 SelectSeq(mem.backend.entries, LAMBDA r : r.chat_id # ChatId)]}
      [] OTHER -> {mem}

\* Mutant: remove_message that forgets the backend.
RemoveMessageMemoryOnly(mem, msg) ==
    IF IndexOf(mem.message_history, msg, 1) = 0
    THEN [mem EXCEPT !.raised = "ValueError"]
    ELSE [mem EXCEPT !.message_history = ListRemove(mem.message_history, msg)]

\* Mutant: the backend is told to remove before the in-memory list is.
RemoveMessageBackendFirst(mem, msg) ==
    LET res == RemoveMessageBackend(mem.kind, mem.backend, msg)
    IN IF res.raised # "none"
       THEN [mem EXCEPT !.raised = res.raised]
       ELSE IF IndexOf(mem.message_history, msg, 1) = 0
       THEN [mem EXCEPT !.backend = res.backend, !.raised = "ValueError"]
       ELSE [kind |-> mem.kind,
             message_history |-> ListRemove(mem.message_history, msg),
             backend |-> res.backend, raised |-> "none"]

RemoveMessage(mem, msg) ==
    IF IndexOf(mem.message_history, msg, 1) = 0
    THEN [mem EXCEPT !.raised = "ValueError"]
    ELSE LET history == ListRemove(mem.message_history, msg)
             res == RemoveMessageBackend(mem.kind, mem.backend, msg)
         IN [kind |-> mem.kind, message_history |-> history,
             backend |-> res.backend, raised |-> res.raised]

\* Mutant: the cleanup stops after the first temporary message.
RECURSIVE CleanTemporaryLoopFirstOnly(_, _, _)
CleanTemporaryLoopFirstOnly(mem, snapshot, i) ==
    IF i > Len(snapshot) \/ mem.raised # "none" THEN mem
    ELSE IF snapshot[i].temporary
         THEN RemoveMessage(mem, snapshot[i])
         ELSE CleanTemporaryLoopFirstOnly(mem, snapshot, i + 1)

\* Mutant: the loop runs over the list it removes from, so the element
\* that follows a removed one is skipped.
RECURSIVE CleanTemporaryLoopSkipsNext(_, _, _)
CleanTemporaryLoopSkipsNext(mem, snapshot, i) ==
    IF i > Len(snapshot) \/ mem.raised # "none" THEN mem
    ELSE IF snapshot[i].temporary
         THEN CleanTemporaryLoopSkipsNext(RemoveMessage(mem, snapshot[i]),
                                          snapshot, i + 2)
         ELSE CleanTemporaryLoopSkipsNext(mem, snapshot, i + 1)

\* for msg in self.message_history[:]: if msg.temporary: remove_message(msg)
RECURSIVE CleanTemporaryLoop(_, _, _)
CleanTemporaryLoop(mem, snapshot, i) ==
    IF i > Len(snapshot) \/ mem.raised # "none" THEN mem
    ELSE IF snapshot[i].temporary
         THEN CleanTemporaryLoop(RemoveMessage(mem, snapshot[i]), snapshot, i + 1)
         ELSE CleanTemporaryLoop(mem, snapshot, i + 1)

CleanTemporaryMessageHistory(mem) ==
    CleanTemporaryLoop(mem, mem.message_history, 1)

\* -------------------------------------------------------------- providers
ChatgptProvider(provider_id, model, token_limit, retries) ==
    [provider_id |-> provider_id, token_limit |-> token_limit,
     retries_on_service_error |-> retries,
     tokenizer |-> OpenAITokenizer(model)]

\* The token_limit (explicit override) configured together with a retry
\* budget: 34, 48, 20, 34, ...
TokenLimitFor(retries) ==
    CASE retries % 3 = 0 -> 34
      [] retries % 3 = 1 -> 48
      [] OTHER -> 20

SingleProvider(r) ==
    <<ChatgptProvider("chatgpt", "gpt-3.5-turbo-0613", TokenLimitFor(r), r)>>

ProviderLists ==
    {SingleProvider(r) : r \in 0..MaxRetries}
    \cup {<<ChatgptProvider("chatgpt", "gpt-3.5-turbo-0613", 48, 1),
            ChatgptProvider("chatgpt-0301", "gpt-3.5-turbo-0301", 34, 0)>>}

NoProvider ==
    [provider_id |-> "", token_limit |-> 0, retries_on_service_error |-> 0,
     tokenizer |-> OpenAITokenizer("")]

\* The provider ids of a list, in order, and the validator of Flow.providers:
\* len(providers) == 0, then len(provider_ids) != len(set(provider_ids)).
ProviderIdsOf(provider_list) ==
    [i \in 1..Len(provider_list) |-> provider_list[i].provider_id]

\* Mutant: the validator that only refuses the empty list.
ValidateProvidersNonEmptyOnly(provider_list) ==
    IF Len(provider_list) = 0 THEN "InvalidProvidersError" ELSE "none"

ValidateProviders(provider_list) ==
    LET provider_ids == ProviderIdsOf(provider_list)
    IN IF Len(provider_list) = 0
       THEN "InvalidProvidersError"
       ELSE IF Len(provider_ids)
               # Cardinality({provider_ids[i] : i \in 1..Len(provider_ids)})
       THEN "InvalidProvidersError"
       ELSE "none"

\* Mutant: an omitted provider_id always selects the first provider.
GetProviderFirstWhenOmitted(provider_list, provider_id) ==
    IF provider_id = "None"
    THEN [raised |-> "none", provider |-> provider_list[1]]
    ELSE LET providers_found ==
                 SelectSeq(provider_list, LAMBDA p : p.provider_id = provider_id)
         IN IF Len(providers_found) = 0
            THEN [raised |-> "ProviderNotFoundError", provider |-> NoProvider]
            ELSE [raised |-> "none", provider |-> providers_found[1]]

GetProvider(provider_list, provider_id) ==
    IF provider_id = "None"
    THEN IF Len(provider_list) = 1
         THEN [raised |-> "none", provider |-> provider_list[1]]
         ELSE [raised |-> "ProviderMissingInCompletionError",
               provider |-> NoProvider]
    ELSE LET providers_found ==
                 SelectSeq(provider_list, LAMBDA p : p.provider_id = provider_id)
         IN IF Len(providers_found) = 0
            THEN [raised |-> "ProviderNotFoundError", provider |-> NoProvider]
            ELSE [raised |-> "none", provider |-> providers_found[1]]

\* ------------------------------------------------- the provider's answers
\* What one call of provider.completion does: return a text, raise the
\* service-unavailable error, or raise some other error.
Text(t) == [kind |-> "text", text |-> t, exc |-> ""]
Unavailable == [kind |-> "unavailable", text |-> "", exc |-> "ServiceUnavailableError"]
OtherError == [kind |-> "error", text |-> "", exc |-> "APIError"]

Outcomes == {Text(t) : t \in Responses} \cup {Unavailable, OtherError}

SeqsUpTo(S, n) == UNION {[1..k -> S] : k \in 1..n}

\* Scripts without entries that can never be told apart: nothing follows an
\* error (the operation ends there) and the last two entries differ (the
\* last one repeats anyway).
ProviderScripts ==
    {s \in SeqsUpTo(Outcomes, MaxScript) :
        /\ \A i \in 1..(Len(s) - 1) : s[i].kind # "error"
        /\ Len(s) > 1 => s[Len(s)] # s[Len(s) - 1]}

\* The i-th answer of a scripted collaborator; the last entry repeats.
ScriptAt(script, i) == script[IF i <= Len(script) THEN i ELSE Len(script)]

\* Mutant: range(1, retries + 3), one attempt too many.
ProviderAttemptsExtra(retries_on_service_error) == 1..(retries_on_service_error + 2)

\* Mutant: range(1, retries + 1), one attempt too few.
ProviderAttemptsShort(retries_on_service_error) == 1..retries_on_service_error

\* range(1, provider.retries_on_service_error + 2)
ProviderAttempts(retries_on_service_error) == 1..(retries_on_service_error + 1)

\* Mutant: the service-unavailable error is not caught, the first one ends
\* the loop.
RECURSIVE PromptProviderGivesUp(_, _, _, _, _)
PromptProviderGivesUp(provider, messages, script, attempt, log) ==
    IF attempt \notin ProviderAttempts(provider.retries_on_service_error)
    THEN [raised |-> "ServiceUnavailableError", text |-> "", log |-> log]
    ELSE LET answer == ScriptAt(script, Len(log) + 1)
             called == Append(log, [messages |-> messages, answer |-> answer])
         IN CASE answer.kind = "text" ->
                    [raised |-> "none", text |-> answer.text, log |-> called]
              [] OTHER ->
                    [raised |-> answer.exc, text |-> "", log |-> called]

\* Mutant: `except Exception`, every provider error is retried.
RECURSIVE PromptProviderRetriesAll(_, _, _, _, _)
PromptProviderRetriesAll(provider, messages, script, attempt, log) ==
    IF attempt \notin ProviderAttempts(provider.retries_on_service_error)
    THEN [raised |-> "ServiceUnavailableError", text |-> "", log |-> log]
    ELSE LET answer == ScriptAt(script, Len(log) + 1)
             called == Append(log, [messages |-> messages, answer |-> answer])
         IN CASE answer.kind = "text" ->
                    [raised |-> "none", text |-> answer.text, log |-> called]
              [] OTHER ->
                    PromptProviderRetriesAll(provider, messages, script,
                                             attempt + 1, called)

\* for attempt in ProviderAttempts: try: return provider.completion(messages)
\* `log` holds the provider calls made so far in the running operation.
RECURSIVE PromptProviderWithRetryLoop(_, _, _, _, _)
PromptProviderWithRetryLoop(provider, messages, script, attempt, log) ==
    IF attempt \notin ProviderAttempts(provider.retries_on_service_error)
    THEN [raised |-> "ServiceUnavailableError", text |-> "", log |-> log]
    ELSE LET answer == ScriptAt(script, Len(log) + 1)
             called == Append(log, [messages |-> messages, answer |-> answer])
         IN CASE answer.kind = "text" ->
                    [raised |-> "none", text |-> answer.text, log |-> called]
              [] answer.kind = "unavailable" ->
                    PromptProviderWithRetryLoop(provider, messages, script,
                                                attempt + 1, called)
              [] OTHER ->
                    [raised |-> answer.exc, text |-> "", log |-> called]

PromptProviderWithRetry(provider, messages, script, log) ==
    PromptProviderWithRetryLoop(provider, messages, script, 1, log)

\* ------------------------------------------------------- Flow.completion
\* The result of an operation: the memory it leaves, the ids it consumed,
\* what the caller sees, and the calls it made.
Result(mem, ids, raised, value, log, fixes) ==
    [mem |-> mem, ids |-> ids, raised |-> raised, value |-> value,
     provider_calls |-> log, fixer_calls |-> fixes, cause |-> "",
     invoked |-> <<>>]

CompletionCall(mem, provider_list, id, prompt, provider_id, token_offset, script) ==
    LET found == GetProvider(provider_list, provider_id)
        provider == found.provider
        user_message == ChatMessage(id, provider.provider_id, prompt, "user", FALSE)
        inserted == InsertMessage(mem, user_message)
        message_history_after_cutoff ==
            GetMessageHistoryUptoTokenLimit(inserted.message_history,
                provider.token_limit - token_offset, provider.tokenizer)
        \* the cutoff is computed before the try block is entered
        cutoff_raises ==
            GetMessageHistoryUptoTokenLimitRaises(inserted.message_history,
                provider.token_limit - token_offset, provider.tokenizer)
        answer == PromptProviderWithRetry(provider, message_history_after_cutoff,
                                          script, <<>>)
        assistant_message ==
            ChatMessage(id + 1, provider.provider_id, answer.text, "assistant", FALSE)
        answered == InsertMessage(inserted, assistant_message)
        \* except Exception as err: remove_message(user_message); raise err
        RollBack(m, err, ids) ==
            LET removed == RemoveMessage([m EXCEPT !.raised = "none"], user_message)
            IN Result([removed EXCEPT !.raised = "none"], ids,
                      IF removed.raised # "none" THEN removed.raised ELSE err,
                      "", answer.log, <<>>)
    IN IF found.raised # "none"
       THEN Result(mem, 0, found.raised, "", <<>>, <<>>)
       ELSE IF inserted.raised # "none"
       THEN Result([inserted EXCEPT !.raised = "none"], 1, inserted.raised,
                   "", <<>>, <<>>)
       ELSE IF cutoff_raises
       THEN Result(inserted, 1, "ValueError", "", <<>>, <<>>)
       ELSE IF answer.raised # "none"
       THEN RollBack(inserted, answer.raised, 1)
       ELSE IF answered.raised # "none"
       THEN RollBack(answered, answered.raised, 2)
       ELSE Result(answered, 2, "none", answer.text, answer.log, <<>>)

\* ------------------------------------------ Flow.completion_with_auto_fixer
\* What one call of auto_fixer does with a response: accept it, raise
\* InvalidResponseError(FixRequest), or raise some other error.  The loop
\* stops at the first verdict that is not "invalid", so a script is a run
\* of "invalid" closed by any verdict.
Verdicts == {"valid", "invalid", "error"}

FixerScripts ==
    {s \in SeqsUpTo(Verdicts, MaxFixRetries + 1) :
        \A i \in 1..(Len(s) - 1) : s[i] = "invalid"}

\* Mutant: range(1, auto_fixer_retries + 1), one attempt too few.
AutoFixerAttemptsShort(auto_fixer_retries) == 1..auto_fixer_retries

\* range(1, auto_fixer_retries + 2)
AutoFixerAttempts(auto_fixer_retries) == 1..(auto_fixer_retries + 1)

\* Mutant: the temporary messages are cleaned when the loop gives up.
RECURSIVE AutoFixerLoopCleansOnGiveUp(_, _, _, _, _, _, _, _, _, _)
AutoFixerLoopCleansOnGiveUp(mem, provider, id, ids, token_offset, auto_fixer_retries, script, fixer, log, fixes) ==
    IF Len(fixes) + 1 \notin AutoFixerAttempts(auto_fixer_retries)
    THEN Result(CleanTemporaryMessageHistory(mem), ids, "InvalidResponseError",
                "", log, fixes)
    ELSE
    LET message_history_after_cutoff ==
            GetMessageHistoryUptoTokenLimit(mem.message_history,
                provider.token_limit - token_offset, provider.tokenizer)
        cutoff_raises ==
            GetMessageHistoryUptoTokenLimitRaises(mem.message_history,
                provider.token_limit - token_offset, provider.tokenizer)
        answer == PromptProviderWithRetry(provider, message_history_after_cutoff,
                                          script, log)
        response == answer.text
        verdict == ScriptAt(fixer, Len(fixes) + 1)
        applied == Append(fixes, [response |-> response, verdict |-> verdict])
        assistant_message(temporary) ==
            ChatMessage(id + ids, provider.provider_id, response, "assistant",
                        temporary)
        accepted == InsertMessage(mem, assistant_message(FALSE))
        cleaned == CleanTemporaryMessageHistory(accepted)
        rejected == InsertMessage(mem, assistant_message(TRUE))
    IN IF cutoff_raises
       THEN Result(mem, ids, "ValueError", "", log, fixes)
       ELSE IF answer.raised # "none"
       THEN Result(mem, ids, answer.raised, "", answer.log, fixes)
       ELSE CASE verdict = "valid" ->
                    IF accepted.raised # "none"
                    THEN Result([accepted EXCEPT !.raised = "none"], ids + 1,
                                accepted.raised, "", answer.log, applied)
                    ELSE IF cleaned.raised # "none"
                    THEN Result([cleaned EXCEPT !.raised = "none"], ids + 1,
                                cleaned.raised, "", answer.log, applied)
                    ELSE Result(cleaned, ids + 1, "none", response,
                                answer.log, applied)
              [] verdict = "invalid" ->
                    IF rejected.raised # "none"
                    THEN Result([rejected EXCEPT !.raised = "none"], ids + 1,
                                rejected.raised, "", answer.log, applied)
                    ELSE AutoFixerLoopCleansOnGiveUp(rejected, provider, id, ids + 1,
                                       token_offset, auto_fixer_retries,
                                       script, fixer, answer.log, applied)
              [] OTHER ->
                    Result(mem, ids + 1, "AutoFixerError", "", answer.log, applied)

\* Mutant: the temporary messages are cleaned when the provider call raises.
RECURSIVE AutoFixerLoopCleansOnProviderError(_, _, _, _, _, _, _, _, _, _)
AutoFixerLoopCleansOnProviderError(mem, provider, id, ids, token_offset, auto_fixer_retries, script, fixer, log, fixes) ==
    IF Len(fixes) + 1 \notin AutoFixerAttempts(auto_fixer_retries)
    THEN Result(mem, ids, "InvalidResponseError", "", log, fixes)
    ELSE
    LET message_history_after_cutoff ==
            GetMessageHistoryUptoTokenLimit(mem.message_history,
                provider.token_limit - token_offset, provider.tokenizer)
        cutoff_raises ==
            GetMessageHistoryUptoTokenLimitRaises(mem.message_history,
                provider.token_limit - token_offset, provider.tokenizer)
        answer == PromptProviderWithRetry(provider, message_history_after_cutoff,
                                          script, log)
        response == answer.text
        verdict == ScriptAt(fixer, Len(fixes) + 1)
        applied == Append(fixes, [response |-> response, verdict |-> verdict])
        assistant_message(temporary) ==
            ChatMessage(id + ids, provider.provider_id, response, "assistant",
                        temporary)
        accepted == InsertMessage(mem, assistant_message(FALSE))
        cleaned == CleanTemporaryMessageHistory(accepted)
        rejected == InsertMessage(mem, assistant_message(TRUE))
    IN IF cutoff_raises
       THEN Result(mem, ids, "ValueError", "", log, fixes)
       ELSE IF answer.raised # "none"
       THEN Result(CleanTemporaryMessageHistory(mem), ids, answer.raised, "",
                   answer.log, fixes)
       ELSE CASE verdict = "valid" ->
                    IF accepted.raised # "none"
                    THEN Result([accepted EXCEPT !.raised = "none"], ids + 1,
                                accepted.raised, "", answer.log, applied)
                    ELSE IF cleaned.raised # "none"
                    THEN Result([cleaned EXCEPT !.raised = "none"], ids + 1,
                                cleaned.raised, "", answer.log, applied)
                    ELSE Result(cleaned, ids + 1, "none", response,
                                answer.log, applied)
              [] verdict = "invalid" ->
                    IF rejected.raised # "none"
                    THEN Result([rejected EXCEPT !.raised = "none"], ids + 1,
                                rejected.raised, "", answer.log, applied)
                    ELSE AutoFixerLoopCleansOnProviderError(rejected, provider, id, ids + 1,
                                       token_offset, auto_fixer_retries,
                                       script, fixer, answer.log, applied)
              [] OTHER ->
                    Result(mem, ids + 1, "AutoFixerError", "", answer.log, applied)

\* Mutant: the response is stored before the auto_fixer's error propagates.
RECURSIVE AutoFixerLoopKeepsResponseOnFixerError(_, _, _, _, _, _, _, _, _, _)
AutoFixerLoopKeepsResponseOnFixerError(mem, provider, id, ids, token_offset, auto_fixer_retries, script, fixer, log, fixes) ==
    IF Len(fixes) + 1 \notin AutoFixerAttempts(auto_fixer_retries)
    THEN Result(mem, ids, "InvalidResponseError", "", log, fixes)
    ELSE
    LET message_history_after_cutoff ==
            GetMessageHistoryUptoTokenLimit(mem.message_history,
                provider.token_limit - token_offset, provider.tokenizer)
        cutoff_raises ==
            GetMessageHistoryUptoTokenLimitRaises(mem.message_history,
                provider.token_limit - token_offset, provider.tokenizer)
        answer == PromptProviderWithRetry(provider, message_history_after_cutoff,
                                          script, log)
        response == answer.text
        verdict == ScriptAt(fixer, Len(fixes) + 1)
        applied == Append(fixes, [response |-> response, verdict |-> verdict])
        assistant_message(temporary) ==
            ChatMessage(id + ids, provider.provider_id, response, "assistant",
                        temporary)
        accepted == InsertMessage(mem, assistant_message(FALSE))
        cleaned == CleanTemporaryMessageHistory(accepted)
        rejected == InsertMessage(mem, assistant_message(TRUE))
    IN IF cutoff_raises
       THEN Result(mem, ids, "ValueError", "", log, fixes)
       ELSE IF answer.raised # "none"
       THEN Result(mem, ids, answer.raised, "", answer.log, fixes)
       ELSE CASE verdict = "valid" ->
                    IF accepted.raised # "none"
                    THEN Result([accepted EXCEPT !.raised = "none"], ids + 1,
                                accepted.raised, "", answer.log, applied)
                    ELSE IF cleaned.raised # "none"
                    THEN Result([cleaned EXCEPT !.raised = "none"], ids + 1,
                                cleaned.raised, "", answer.log, applied)
                    ELSE Result(cleaned, ids + 1, "none", response,
                                answer.log, applied)
              [] verdict = "invalid" ->
                    IF rejected.raised # "none"
                    THEN Result([rejected EXCEPT !.raised = "none"], ids + 1,
                                rejected.raised, "", answer.log, applied)
                    ELSE AutoFixerLoopKeepsResponseOnFixerError(rejected, provider, id, ids + 1,
                                       token_offset, auto_fixer_retries,
                                       script, fixer, answer.log, applied)
              [] OTHER ->
                    Result([rejected EXCEPT !.raised = "none"], ids + 1,
                           "AutoFixerError", "", answer.log, applied)

RECURSIVE AutoFixerLoop(_, _, _, _, _, _, _, _, _, _)
AutoFixerLoop(mem, provider, id, ids, token_offset, auto_fixer_retries, script, fixer, log, fixes) ==
    IF Len(fixes) + 1 \notin AutoFixerAttempts(auto_fixer_retries)
    THEN Result(mem, ids, "InvalidResponseError", "", log, fixes)
    ELSE
    LET message_history_after_cutoff ==
            GetMessageHistoryUptoTokenLimit(mem.message_history,
                provider.token_limit - token_offset, provider.tokenizer)
        cutoff_raises ==
            GetMessageHistoryUptoTokenLimitRaises(mem.message_history,
                provider.token_limit - token_offset, provider.tokenizer)
        answer == PromptProviderWithRetry(provider, message_history_after_cutoff,
                                          script, log)
        response == answer.text
        verdict == ScriptAt(fixer, Len(fixes) + 1)
        applied == Append(fixes, [response |-> response, verdict |-> verdict])
        assistant_message(temporary) ==
            ChatMessage(id + ids, provider.provider_id, response, "assistant",
                        temporary)
        accepted == InsertMessage(mem, assistant_message(FALSE))
        cleaned == CleanTemporaryMessageHistory(accepted)
        rejected == InsertMessage(mem, assistant_message(TRUE))
    IN IF cutoff_raises
       THEN Result(mem, ids, "ValueError", "", log, fixes)
       ELSE IF answer.raised # "none"
       THEN Result(mem, ids, answer.raised, "", answer.log, fixes)
       ELSE CASE verdict = "valid" ->
                    IF accepted.raised # "none"
                    THEN Result([accepted EXCEPT !.raised = "none"], ids + 1,
                                accepted.raised, "", answer.log, applied)
                    ELSE IF cleaned.raised # "none"
                    THEN Result([cleaned EXCEPT !.raised = "none"], ids + 1,
                                cleaned.raised, "", answer.log, applied)
                    ELSE Result(cleaned, ids + 1, "none", response,
                                answer.log, applied)
              [] verdict = "invalid" ->
                    IF rejected.raised # "none"
                    THEN Result([rejected EXCEPT !.raised = "none"], ids + 1,
                                rejected.raised, "", answer.log, applied)
                    ELSE AutoFixerLoop(rejected, provider, id, ids + 1,
                                       token_offset, auto_fixer_retries,
                                       script, fixer, answer.log, applied)
              [] OTHER ->
                    Result(mem, ids + 1, "AutoFixerError", "", answer.log, applied)

\* Mutant: the user message is inserted before the provider is resolved.
CompletionWithAutoFixerCallInsertsFirst(mem, provider_list, id, prompt, auto_fixer_retries, provider_id, token_offset, script, fixer) ==
    LET found == GetProvider(provider_list, provider_id)
        provider == found.provider
        initial_user_message ==
            ChatMessage(id, provider_id, prompt, "user", FALSE)
        inserted == InsertMessage(mem, initial_user_message)
    IN IF found.raised # "none"
       THEN Result([inserted EXCEPT !.raised = "none"], 1, found.raised,
                   "", <<>>, <<>>)
       ELSE IF inserted.raised # "none"
       THEN Result([inserted EXCEPT !.raised = "none"], 1, inserted.raised,
                   "", <<>>, <<>>)
       ELSE AutoFixerLoop(inserted, provider, id, 1, token_offset,
                          auto_fixer_retries, script, fixer, <<>>, <<>>)

CompletionWithAutoFixerCall(mem, provider_list, id, prompt, auto_fixer_retries, provider_id, token_offset, script, fixer) ==
    LET found == GetProvider(provider_list, provider_id)
        provider == found.provider
        initial_user_message ==
            ChatMessage(id, provider.provider_id, prompt, "user", FALSE)
        inserted == InsertMessage(mem, initial_user_message)
    IN IF found.raised # "none"
       THEN Result(mem, 0, found.raised, "", <<>>, <<>>)
       ELSE IF inserted.raised # "none"
       THEN Result([inserted EXCEPT !.raised = "none"], 1, inserted.raised,
                   "", <<>>, <<>>)
       ELSE AutoFixerLoop(inserted, provider, id, 1, token_offset,
                          auto_fixer_retries, script, fixer, <<>>, <<>>)

\* ------------------------------------------ Flow.completion_with_functions
\* Responses of the provider to a prompt that offers functions: plain text,
\* an invocation of say_hey, an invocation of a function that was not
\* offered, and an invocation of say_hey with an argument of the wrong type.
PlainAnswer == "this is some invalid function invocation content"
SayHeyJohn == "{\"name\": \"say_hey\", \"arguments\": {\"name\": \"john\"}}"
UnknownFunction == "{\"name\": \"INVALID_FUNCTION_NAME\", \"arguments\": {\"name\": \"john\"}}"
SayHeyNumber == "{\"name\": \"say_hey\", \"arguments\": {\"name\": 1}}"

FunctionResponses == {PlainAnswer, SayHeyJohn, UnknownFunction, SayHeyNumber}

\* FunctionInvocation.model_validate_json(response): the parsed invocation,
\* or pydantic's ValidationError (a ValueError) for any other text.
ModelValidateJson(response) ==
    CASE response = SayHeyJohn ->
            [raised |-> "none", name |-> "say_hey",
             arguments |-> [name |-> [type |-> "string", value |-> "john"]]]
      [] response = UnknownFunction ->
            [raised |-> "none", name |-> "INVALID_FUNCTION_NAME",
             arguments |-> [name |-> [type |-> "string", value |-> "john"]]]
      [] response = SayHeyNumber ->
            [raised |-> "none", name |-> "say_hey",
             arguments |-> [name |-> [type |-> "integer", value |-> "1"]]]
      [] OTHER -> [raised |-> "ValueError"]

\* Function.from_function(say_hey): def say_hey(name: str) -> str.
SayHey == [name |-> "say_hey", parameters |-> [name |-> "string"]]

Functions == <<SayHey>>

\* Function.invoke(**kwargs): validate the arguments against the parameter
\* schema, then call the function (say_hey returns f"Hello {name}").
FunctionInvoke(func, arguments) ==
    IF /\ DOMAIN arguments = DOMAIN func.parameters
       /\ \A k \in DOMAIN arguments : arguments[k].type = func.parameters[k]
    THEN [raised |-> "none", value |-> "Hello " \o arguments.name.value,
          invoked |-> <<func.name>>]
    ELSE [raised |-> "InvalidFunctionCallResponseError", value |-> "",
          invoked |-> <<>>]

\* Flow._invoke_function
InvokeFunction(function_invocation, functions) ==
    LET matching_functions ==
            SelectSeq(functions, LAMBDA f : f.name = function_invocation.name)
    IN IF Len(matching_functions) = 0
       THEN [raised |-> "InvalidFunctionCallResponseError", value |-> "",
             invoked |-> <<>>]
       ELSE FunctionInvoke(matching_functions[1], function_invocation.arguments)

\* Mutant: a response that is no invocation is refused in both modes.
FunctionAutoFixerStrict(response, require_function_call, functions) ==
    LET function_invocation == ModelValidateJson(response)
        invocation == InvokeFunction(function_invocation, functions)
    IN IF function_invocation.raised # "none"
       THEN [verdict |-> "invalid", value |-> "", cause |-> "ValueError",
             invoked |-> <<>>]
       ELSE IF invocation.raised # "none"
       THEN [verdict |-> "invalid", value |-> "", cause |-> invocation.raised,
             invoked |-> <<>>]
       ELSE [verdict |-> "valid", value |-> invocation.value, cause |-> "",
             invoked |-> invocation.invoked]

\* function_auto_fixer(response): the value it returns, or the
\* InvalidResponseError it raises together with that error's __cause__.
FunctionAutoFixer(response, require_function_call, functions) ==
    LET function_invocation == ModelValidateJson(response)
        invocation == InvokeFunction(function_invocation, functions)
    IN IF function_invocation.raised # "none"
       THEN IF require_function_call = FALSE
            THEN [verdict |-> "valid", value |-> response, cause |-> "",
                  invoked |-> <<>>]
            ELSE [verdict |-> "invalid", value |-> "", cause |-> "ValueError",
                  invoked |-> <<>>]
       ELSE IF invocation.raised # "none"
       THEN [verdict |-> "invalid", value |-> "", cause |-> invocation.raised,
             invoked |-> <<>>]
       ELSE [verdict |-> "valid", value |-> invocation.value, cause |-> "",
             invoked |-> invocation.invoked]

\* render_required_functions / render_optional_functions: the prompt inside
\* the template that lists the functions.
RenderFunctions(prompt, require_function_call) ==
    (IF require_function_call THEN "required_functions: "
     ELSE "optional_functions: ") \o prompt

\* Mutant: raise InvalidResponseError from last_exception.
GiveUpCauseIsWrapper(last_exception) == "InvalidResponseError"

\* raise InvalidResponseError from last_exception.__cause__
GiveUpCause(last_exception) == last_exception.cause

RECURSIVE Concat(_)
Concat(seqs) == IF seqs = <<>> THEN <<>> ELSE Head(seqs) \o Concat(Tail(seqs))

\* completion_with_functions: completion_with_auto_fixer with
\* function_auto_fixer as the auto_fixer.  The verdicts handed to the loop
\* are those of function_auto_fixer on the responses the provider gives,
\* which the loop with an auto_fixer that refuses everything lists.
CompletionWithFunctionsCall(mem, provider_list, id, prompt, functions, require_function_call, auto_fix_retries, provider_id, token_offset, script) ==
    LET formatted_prompt == RenderFunctions(prompt, require_function_call)
        responses ==
            CompletionWithAutoFixerCall(mem, provider_list, id, formatted_prompt,
                auto_fix_retries, provider_id, token_offset, script,
                <<"invalid">>).fixer_calls
        function_auto_fixer(response) ==
            FunctionAutoFixer(response, require_function_call, functions)
        fixer == [i \in 1..Len(responses) |->
                     function_auto_fixer(responses[i].response).verdict]
        res == CompletionWithAutoFixerCall(mem, provider_list, id,
                   formatted_prompt, auto_fix_retries, provider_id,
                   token_offset, script, fixer)
        outcomes == [i \in 1..Len(res.fixer_calls) |->
                        function_auto_fixer(res.fixer_calls[i].response)]
        last_outcome == outcomes[Len(outcomes)]
    IN [res EXCEPT
           !.value = IF res.raised = "none" THEN last_outcome.value ELSE "",
           !.cause = IF res.raised = "InvalidResponseError"
                     THEN GiveUpCause(last_outcome) ELSE "",
           !.invoked = Concat([i \in 1..Len(outcomes) |-> outcomes[i].invoked])]

\* ------------------------------------------------------- the state machine
TokenOffsets == {16}

ProviderIds == {"None", "chatgpt", "chatgpt-0301", "unknown"}

CutoffLimits == {-10, 4, 8, 16, 18, 22, 32}

Tokenizers ==
    {OpenAITokenizer("gpt-3.5-turbo-0613"), OpenAITokenizer("gpt-3.5-turbo-0301")}

\* Messages a caller inserts directly through flow.memory_provider.
InsertableMessages ==
    {<<"user", p, FALSE>> : p \in Prompts}
    \cup {<<"assistant", r, FALSE>> : r \in Responses}

\* What the caller observed of the last operation.
Observation(op, args, res, cutoff) ==
    [op |-> op, args |-> args,
     before |-> message_history, backend_before |-> backend,
     raised |-> res.raised, value |-> res.value,
     provider_calls |-> res.provider_calls, fixer_calls |-> res.fixer_calls,
     cutoff |-> cutoff, cause |-> res.cause, invoked |-> res.invoked]

NoArgs ==
    [prompt |-> "", provider_id |-> "None", token_offset |-> 0,
     auto_fixer_retries |-> 0, token_limit |-> 0,
     tokenizer |-> OpenAITokenizer(""), script |-> <<>>, fixer |-> <<>>,
     providers |-> <<>>, msgs |-> <<>>, require_function_call |-> FALSE]

\* No call has been made, or the caller has dropped the last call's result.
NoObservation ==
    [op |-> "none", args |-> NoArgs, before |-> <<>>, backend_before |-> <<>>,
     raised |-> "none", value |-> "", provider_calls |-> <<>>,
     fixer_calls |-> <<>>, cutoff |-> <<>>, cause |-> "", invoked |-> <<>>]

CurrentMemory == Memory(memory_kind, message_history, backend)

\* The persistent backend used together with a retry budget: file, redis,
\* sql, file, ...
PersistentKindFor(retries) ==
    CASE retries % 3 = 0 -> "file"
      [] retries % 3 = 1 -> "redis"
      [] OTHER -> "sql"

\* Flow(providers=..., memory_provider=...): every provider list with the
\* default EphermalMemory, and each persistent backend with one of them.
Configurations ==
    {<<pl, "ephemeral">> : pl \in ProviderLists}
    \cup {<<SingleProvider(r), PersistentKindFor(r)>> : r \in 0..MaxRetries}

Init ==
    /\ \E c \in Configurations : providers = c[1] /\ memory_kind = c[2]
    /\ message_history = <<>>
    /\ backend = EmptyBackend(memory_kind)
    /\ next_id = 1
    /\ last = NoObservation
    /\ persist = TRUE
    /\ alive = TRUE
    /\ objects = <<>>

Apply(op, args, res, cutoff) ==
    /\ next_id + res.ids - 1 <= MaxId
    /\ message_history' = res.mem.message_history
    /\ backend' = res.mem.backend
    /\ next_id' = next_id + res.ids
    /\ last' = Observation(op, args, res, cutoff)
    /\ UNCHANGED <<providers, memory_kind, persist, alive, objects>>

Completion(prompt, provider_id, token_offset, script) ==
    Apply("completion",
          [NoArgs EXCEPT !.prompt = prompt, !.provider_id = provider_id,
                         !.token_offset = token_offset, !.script = script],
          CompletionCall(CurrentMemory, providers, next_id, prompt,
                         provider_id, token_offset, script),
          <<>>)

CompletionWithAutoFixer(prompt, auto_fixer_retries, provider_id, token_offset, script, fixer) ==
    Apply("completion_with_auto_fixer",
          [NoArgs EXCEPT !.prompt = prompt, !.provider_id = provider_id,
                         !.token_offset = token_offset,
                         !.auto_fixer_retries = auto_fixer_retries,
                         !.script = script, !.fixer = fixer],
          CompletionWithAutoFixerCall(CurrentMemory, providers, next_id, prompt,
                                      auto_fixer_retries, provider_id,
                                      token_offset, script, fixer),
          <<>>)

InsertMessageOp(role, content, temporary) ==
    LET msg == ChatMessage(next_id, providers[1].provider_id, content, role,
                           temporary)
        mem == InsertMessage(CurrentMemory, msg)
    IN Apply("insert_message", NoArgs,
             Result([mem EXCEPT !.raised = "none"], 1, mem.raised, "", <<>>, <<>>),
             <<>>)

\* Mutant: the cutoff pops the messages it leaves out from the stored list.
GetMessageHistoryUptoTokenLimitOpTruncates(token_limit, tokenizer) ==
    LET kept == GetMessageHistoryUptoTokenLimit(message_history, token_limit,
                                                tokenizer)
    IN Apply("get_message_history_upto_token_limit",
             [NoArgs EXCEPT !.token_limit = token_limit, !.tokenizer = tokenizer],
             Result(Memory(memory_kind,
                           SubSeq(message_history,
                                  Len(message_history) - Len(kept) + 1,
                                  Len(message_history)),
                           backend),
                    0, "none", "", <<>>, <<>>),
             kept)

GetMessageHistoryUptoTokenLimitOp(token_limit, tokenizer) ==
    LET raises == GetMessageHistoryUptoTokenLimitRaises(message_history,
                                                        token_limit, tokenizer)
    IN Apply("get_message_history_upto_token_limit",
             [NoArgs EXCEPT !.token_limit = token_limit, !.tokenizer = tokenizer],
             Result(CurrentMemory, 0, IF raises THEN "ValueError" ELSE "none",
                    "", <<>>, <<>>),
             IF raises THEN <<>>
             ELSE GetMessageHistoryUptoTokenLimit(message_history, token_limit,
                                                  tokenizer))

\* Calls are synchronous: the caller takes the result of one call (the
\* returned value or the exception) before it makes the next one.
Idle == last.op = "none"

Return ==
    /\ ~Idle
    /\ last' = NoObservation
    /\ UNCHANGED <<providers, memory_kind, message_history, backend, next_id,
                   persist, alive, objects>>

\* The provider and the auto_fixer are consulted only after the provider
\* was resolved, so their scripts are inputs of the resolved case alone.
Resolves(provider_id) ==
    GetProvider(providers, provider_id).raised = "none"

FlowCompletion ==
    /\ Idle
    /\ \E prompt \in Prompts, provider_id \in ProviderIds,
       token_offset \in TokenOffsets :
       \E script \in IF Resolves(provider_id) THEN ProviderScripts
                     ELSE {<<Unavailable>>} :
          Completion(prompt, provider_id, token_offset, script)

FlowCompletionWithAutoFixer ==
    /\ Idle
    /\ \E prompt \in Prompts, auto_fixer_retries \in 0..MaxFixRetries,
       provider_id \in ProviderIds, token_offset \in TokenOffsets :
       \E script \in IF Resolves(provider_id) THEN ProviderScripts
                     ELSE {<<Unavailable>>},
          fixer \in IF Resolves(provider_id)
                    THEN {f \in FixerScripts : Len(f) <= auto_fixer_retries + 1}
                    ELSE {<<"invalid">>} :
          CompletionWithAutoFixer(prompt, auto_fixer_retries, provider_id,
                                  token_offset, script, fixer)

MemoryInsertMessage ==
    /\ Idle
    /\ \E m \in InsertableMessages : InsertMessageOp(m[1], m[2], m[3])

MemoryCutoff ==
    /\ Idle
    /\ \E token_limit \in CutoffLimits, tokenizer \in Tokenizers :
       GetMessageHistoryUptoTokenLimitOp(token_limit, tokenizer)

Next ==
    \/ FlowCompletion
    \/ FlowCompletionWithAutoFixer
    \/ MemoryInsertMessage
    \/ MemoryCutoff
    \/ Return

Spec == Init /\ [][Next]_vars

NextCompletion == MemoryInsertMessage \/ FlowCompletion \/ Return

SpecCompletion == Init /\ [][NextCompletion]_vars

NextAutoFixer == MemoryInsertMessage \/ FlowCompletionWithAutoFixer \/ Return

SpecAutoFixer == Init /\ [][NextAutoFixer]_vars

\* Both ways of asking for a completion, on one flow.
NextResolution ==
    FlowCompletion \/ FlowCompletionWithAutoFixer \/ Return

SpecResolution == Init /\ [][NextResolution]_vars

NextCutoff == MemoryInsertMessage \/ MemoryCutoff \/ Return

SpecCutoff == Init /\ [][NextCutoff]_vars

\* completion with any prompt a caller can pass, the ones the encoding
\* refuses included.
FlowCompletionAnyPrompt ==
    /\ Idle
    /\ \E prompt \in Prompts \cup SpecialPrompts, provider_id \in ProviderIds,
       token_offset \in TokenOffsets :
       \E script \in IF Resolves(provider_id) THEN ProviderScripts
                     ELSE {<<Unavailable>>} :
          Completion(prompt, provider_id, token_offset, script)

NextCompletionAnyPrompt ==
    MemoryInsertMessage \/ FlowCompletionAnyPrompt \/ Return

SpecCompletionAnyPrompt == Init /\ [][NextCompletionAnyPrompt]_vars

NextCutoffCompletion ==
    MemoryInsertMessage \/ MemoryCutoff \/ FlowCompletion \/ Return

SpecCutoffCompletion == Init /\ [][NextCutoffCompletion]_vars

\* The provider's answers to a prompt that offers functions.
FunctionOutcomes == {Text(t) : t \in FunctionResponses} \cup {Unavailable}

FunctionScripts ==
    {s \in SeqsUpTo(FunctionOutcomes, MaxScript) :
        Len(s) > 1 => s[Len(s)] # s[Len(s) - 1]}

CompletionWithFunctions(prompt, require_function_call, auto_fix_retries, provider_id, token_offset, script) ==
    Apply("completion_with_functions",
          [NoArgs EXCEPT !.prompt = prompt, !.provider_id = provider_id,
                         !.token_offset = token_offset,
                         !.auto_fixer_retries = auto_fix_retries,
                         !.require_function_call = require_function_call,
                         !.script = script],
          CompletionWithFunctionsCall(CurrentMemory, providers, next_id, prompt,
                                      Functions, require_function_call,
                                      auto_fix_retries, provider_id,
                                      token_offset, script),
          <<>>)

FlowCompletionWithFunctions ==
    /\ Idle
    /\ \E prompt \in Prompts, require_function_call \in BOOLEAN,
          auto_fix_retries \in 0..MaxFixRetries,
          provider_id \in ProviderIds, token_offset \in TokenOffsets :
       \E script \in IF Resolves(provider_id) THEN FunctionScripts
                     ELSE {<<Unavailable>>} :
          CompletionWithFunctions(prompt, require_function_call,
                                  auto_fix_retries, provider_id, token_offset,
                                  script)

\* The first call on a new Flow, as in the tests of completion_with_functions.
FlowCompletionWithFunctionsOnNewFlow ==
    /\ next_id = 1
    /\ FlowCompletionWithFunctions

NextFunctions == FlowCompletionWithFunctionsOnNewFlow \/ Return

SpecFunctions == Init /\ [][NextFunctions]_vars

\* ------------------------------------------------- the memory on its own
\* Messages a caller hands to insert_message_batch.
BatchMessages ==
    {<<"user", "Hi", FALSE>>, <<"assistant", "Paris", TRUE>>}

MaxBatch == 2

Batches == UNION {[1..n -> BatchMessages] : n \in 0..MaxBatch}

InsertMessageBatchOp(batch) ==
    LET msgs == [i \in 1..Len(batch) |->
                    ChatMessage(next_id + i - 1, providers[1].provider_id,
                                batch[i][2], batch[i][1], batch[i][3])]
        mem == InsertMessageBatch(CurrentMemory, msgs)
    IN Apply("insert_message_batch", [NoArgs EXCEPT !.msgs = msgs],
             Result([mem EXCEPT !.raised = "none"], Len(msgs), mem.raised, "",
                    <<>>, <<>>),
             <<>>)

\* The messages a caller hands to remove_message: a message of the history,
\* a copy of one whose temporary flag differs, or a message that was never
\* inserted.
RemovableMessages ==
    ElementsOf(message_history)
    \cup {[m EXCEPT !.temporary = ~m.temporary] : m \in ElementsOf(message_history)}
    \cup {ChatMessage(next_id, providers[1].provider_id, "Hi", "user", FALSE)}

RemoveMessageOp(msg) ==
    LET mem == RemoveMessage(CurrentMemory, msg)
    IN Apply("remove_message", [NoArgs EXCEPT !.msgs = <<msg>>],
             Result([mem EXCEPT !.raised = "none"],
                    IF msg.id = next_id THEN 1 ELSE 0, mem.raised, "", <<>>, <<>>),
             <<>>)

CleanTemporaryMessageHistoryOp ==
    LET mem == CleanTemporaryMessageHistory(CurrentMemory)
    IN Apply("clean_temporary_message_history", NoArgs,
             Result([mem EXCEPT !.raised = "none"], 0, mem.raised, "", <<>>, <<>>),
             <<>>)

\* memory.message_history = list(); memory.load_message_history()
\* (a new memory object for the same chat_id starts the same way).
ReloadOp ==
    \E mem \in LoadMessageHistory([CurrentMemory EXCEPT !.message_history = <<>>]) :
        Apply("load_message_history", NoArgs,
              Result([mem EXCEPT !.raised = "none"], 0, mem.raised, "",
                     <<>>, <<>>),
              <<>>)

CleanupOp ==
    \E mem \in Cleanup(CurrentMemory) :
        Apply("cleanup", NoArgs,
              Result([mem EXCEPT !.raised = "none"], 0, mem.raised, "",
                     <<>>, <<>>),
              <<>>)

MemoryCleanup ==
    /\ Idle
    /\ CleanupOp

MemoryInsertMessageBatch ==
    /\ Idle
    /\ \E batch \in Batches : InsertMessageBatchOp(batch)

MemoryRemoveMessage ==
    /\ Idle
    /\ \E msg \in RemovableMessages : RemoveMessageOp(msg)

MemoryCleanTemporary ==
    /\ Idle
    /\ CleanTemporaryMessageHistoryOp

MemoryReload ==
    /\ Idle
    /\ ReloadOp

\* One memory object of each kind, used without a Flow around it.
InitMemory ==
    /\ providers = SingleProvider(0)
    /\ memory_kind \in MemoryKinds
    /\ message_history = <<>>
    /\ backend = EmptyBackend(memory_kind)
    /\ next_id = 1
    /\ last = NoObservation
    /\ persist = TRUE
    /\ alive = TRUE
    /\ objects = <<>>

NextMemory ==
    \/ MemoryInsertMessage
    \/ MemoryInsertMessageBatch
    \/ MemoryRemoveMessage
    \/ MemoryCleanTemporary
    \/ Return

SpecMemory == InitMemory /\ [][NextMemory]_vars

NextMemoryReload ==
    MemoryInsertMessage \/ MemoryInsertMessageBatch \/ MemoryReload \/ Return

SpecMemoryReload == InitMemory /\ [][NextMemoryReload]_vars

NextMemoryCleanup ==
    MemoryInsertMessage \/ MemoryInsertMessageBatch \/ MemoryCleanup \/ Return

SpecMemoryCleanup == InitMemory /\ [][NextMemoryCleanup]_vars

\* Inserting into and removing from a memory whose backend may be gone.
NextMemoryFailure ==
    MemoryInsertMessage \/ MemoryRemoveMessage \/ MemoryCleanup \/ Return

SpecMemoryFailure == InitMemory /\ [][NextMemoryFailure]_vars

\* ------------------------------- one database, more than one conversation
\* A Redis database or an SQL table that already holds another
\* conversation: a list under that conversation's key, rows with that
\* conversation's chat_id (their ids are uuids, none equals an id of this
\* conversation).
OtherChatId == "chat-2"

OtherChatMessages ==
    <<ChatMessage(101, "chatgpt", "Hi", "user", FALSE),
      ChatMessage(102, "chatgpt", "Paris", "assistant", FALSE)>>

SharedBackend(kind) ==
    IF kind = "redis"
    THEN [exists |-> FALSE, entries |-> <<>>,
          other_keys |-> [c \in {OtherChatId} |->
              <<Unstructure(OtherChatMessages[2]),
                Unstructure(OtherChatMessages[1])>>]]
    ELSE [exists |-> TRUE,
          entries |-> [i \in 1..Len(OtherChatMessages) |->
              [id |-> OtherChatMessages[i].id, chat_id |-> OtherChatId,
               message |-> Unstructure(OtherChatMessages[i])]]]

InitShared ==
    /\ providers = SingleProvider(0)
    /\ memory_kind \in {"redis", "sql"}
    /\ message_history = <<>>
    /\ backend = SharedBackend(memory_kind)
    /\ next_id = 1
    /\ last = NoObservation
    /\ persist = TRUE
    /\ alive = TRUE
    /\ objects = <<>>

SpecMemoryShared == InitShared /\ [][NextMemoryFailure]_vars

\* ------------------------------------------- the life of a memory object
\* Mutant: the finalizer never cleans up.
DelKeepsAlways(mem, keep) == {mem}

\* BaseMemory.__del__: cleanup() runs unless the object persists.  What
\* cleanup() raises inside a finalizer does not reach any caller.
Del(mem, keep) ==
    IF keep THEN {mem}
    ELSE {[m EXCEPT !.raised = "none"] : m \in Cleanup(mem)}

\* del memory: the object and its in-memory list are gone, the backend is
\* what the finalizer left.
MemoryDiscard ==
    /\ Idle
    /\ alive
    /\ \E mem \in Del(CurrentMemory, persist) :
          /\ message_history' = <<>>
          /\ backend' = mem.backend
          /\ alive' = FALSE
          /\ last' = Observation("__del__", NoArgs,
                                 Result(mem, 0, "none", "", <<>>, <<>>), <<>>)
          /\ UNCHANGED <<providers, memory_kind, next_id, persist, objects>>

\* A new memory object for the same chat_id and location; the constructor
\* (__attrs_post_init__) calls load_message_history on the empty list.
MemoryOpen ==
    /\ Idle
    /\ ~alive
    /\ \E keep \in BOOLEAN :
       \E mem \in LoadMessageHistory(Memory(memory_kind, <<>>, backend)) :
          /\ message_history' = mem.message_history
          /\ backend' = mem.backend
          /\ alive' = TRUE
          /\ persist' = keep
          /\ last' = Observation("Memory", NoArgs,
                                 Result(mem, 0, mem.raised, "", <<>>, <<>>),
                                 <<>>)
          /\ UNCHANGED <<providers, memory_kind, next_id, objects>>

MemoryInsertMessageOfAlive == alive /\ MemoryInsertMessage

MemoryCleanupOfAlive == alive /\ MemoryCleanup

MemoryReloadOfAlive == alive /\ MemoryReload

NextMemoryLifecycle ==
    \/ MemoryInsertMessageOfAlive
    \/ MemoryCleanupOfAlive
    \/ MemoryReloadOfAlive
    \/ MemoryDiscard
    \/ MemoryOpen
    \/ Return

SpecMemoryLifecycle == InitMemory /\ [][NextMemoryLifecycle]_vars

\* ------------------------------ two memory objects on one stored document
\* Two file-backed memory objects with the same chat_id and location, used
\* at the same time.  insert_message appends to the object's own list and
\* then runs _insert_message_backend, which reads the document, appends to
\* what it read and writes the result back; nothing keeps the other object
\* from running between these steps.
Writers == 1..2

IdleObject == [message_history |-> <<>>, pc |-> "idle", data |-> <<>>, msg |-> <<>>]

InitRace ==
    /\ providers = SingleProvider(0)
    /\ memory_kind = "file"
    /\ message_history = <<>>
    /\ backend = EmptyBackend("file")
    /\ next_id = 1
    /\ last = NoObservation
    /\ persist = TRUE
    /\ alive = TRUE
    /\ objects = [w \in Writers |-> IdleObject]

\* insert_message: self.message_history.append(msg), then the backend call.
InsertMessageBegin(w) ==
    /\ objects[w].pc = "idle"
    /\ next_id <= MaxId
    /\ \E c \in InsertableMessages :
          LET msg == ChatMessage(next_id, providers[1].provider_id, c[2], c[1],
                                 c[3])
          IN objects' = [objects EXCEPT
                 ![w].message_history = Append(@, msg),
                 ![w].msg = msg,
                 ![w].pc = "read"]
    /\ next_id' = next_id + 1
    /\ UNCHANGED <<providers, memory_kind, message_history, backend, last,
                   persist, alive>>

\* data = structure(json.loads(self._read_memory_file()))
ReadMemoryFile(w) ==
    /\ objects[w].pc = "read"
    /\ backend.exists
    /\ objects' = [objects EXCEPT ![w].data = backend.entries,
                                  ![w].pc = "write"]
    /\ UNCHANGED <<providers, memory_kind, message_history, backend, next_id,
                   last, persist, alive>>

\* Mutant: the write appends to the document as it is now.
WrittenDocumentMerged(data, msg, current) == Append(current, Unstructure(msg))

\* data.messages.append(msg); the document handed to _write_memory_file.
WrittenDocument(data, msg, current) == Append(data, Unstructure(msg))

\* self._write_memory_file(json.dumps(unstructure(data)))
WriteMemoryFile(w) ==
    /\ objects[w].pc = "write"
    /\ backend' = [exists |-> TRUE,
                   entries |-> WrittenDocument(objects[w].data, objects[w].msg,
                                               backend.entries)]
    /\ objects' = [objects EXCEPT ![w].pc = "idle"]
    /\ last' = [op |-> "_write_memory_file", writer |-> w,
                read |-> objects[w].data, msg |-> objects[w].msg,
                backend_before |-> backend]
    /\ UNCHANGED <<providers, memory_kind, message_history, next_id, persist,
                   alive>>

RaceInsertMessageBegin == \E w \in Writers : InsertMessageBegin(w)

RaceReadMemoryFile == \E w \in Writers : ReadMemoryFile(w)

RaceWriteMemoryFile == \E w \in Writers : WriteMemoryFile(w)

NextRace ==
    \/ RaceInsertMessageBegin
    \/ RaceReadMemoryFile
    \/ RaceWriteMemoryFile
    \/ Return

SpecRace == InitRace /\ [][NextRace]_vars

\* ------------------------------------------------- Chat (nynoflow.chats)
\* The Chat class keeps its history in memory only, as a list of messages
\* without ids.
MaxHistory == 6

MaxFailedAttempts == 2

ChatContents == {"Hi", "What is the capital of France?"} \cup SpecialPrompts

ChatRequest(role, content, provider_id) ==
    [role |-> role, content |-> content, provider_id |-> provider_id]

\* Histories in which user and assistant messages alternate.
ChatHistories ==
    UNION {{[i \in 1..n |->
                ChatRequest(IF i % 2 = 1 THEN "user" ELSE "assistant", c[i],
                            "chatgpt")] : c \in [1..n -> ChatContents]} :
           n \in 0..MaxHistory}

\* seq[:stop] of Python: a negative stop counts from the end, and a stop
\* outside the list is clamped.
SliceTo(seq, stop) ==
    LET len == Len(seq)
        bound == IF stop < 0 THEN (IF stop + len < 0 THEN 0 ELSE stop + len)
                 ELSE IF stop > len THEN len ELSE stop
    IN SubSeq(seq, 1, bound)

\* Mutant: one message more is kept before the last one.
CleanAutoFixerFailedAttemptsKeepsOne(history, failed_attempts) ==
    IF history = <<>>
    THEN [raised |-> "IndexError", message_history |-> history]
    ELSE [raised |-> "none",
          message_history |->
              SliceTo(history,
                      Len(history) - failed_attempts * 2)
              \o <<history[Len(history)]>>]

\* Chat._clean_auto_fixer_failed_attempts
CleanAutoFixerFailedAttempts(history, failed_attempts) ==
    IF history = <<>>
    THEN [raised |-> "IndexError", message_history |-> history]
    ELSE LET last_message == history[Len(history)]
             messages_until_user_prompt ==
                 SliceTo(history,
                         Len(history) - failed_attempts * 2 - 1)
         IN [raised |-> "none",
             message_history |-> messages_until_user_prompt \o <<last_message>>]

\* Mutant: history.pop() drops the newest message.
RECURSIVE CutoffMessageHistoryPopsNewest(_, _, _, _)
CutoffMessageHistoryPopsNewest(history, token_limit, token_offset, tokenizer) ==
    IF TokenCountRaises(tokenizer, history)
    THEN [raised |-> "ValueError", value |-> <<>>]
    ELSE IF token_limit - TokenCount(tokenizer, history) < token_offset
    THEN IF history = <<>>
         THEN [raised |-> "IndexError", value |-> <<>>]
         ELSE CutoffMessageHistoryPopsNewest(
                  SubSeq(history, 1, Len(history) - 1),
                  token_limit, token_offset, tokenizer)
    ELSE [raised |-> "none", value |-> history]

\* Chat._cutoff_message_history on the deep copy of the history: while the
\* provider's token count leaves less than token_offset, pop(0).
RECURSIVE CutoffMessageHistory(_, _, _, _)
CutoffMessageHistory(history, token_limit, token_offset, tokenizer) ==
    IF TokenCountRaises(tokenizer, history)
    THEN [raised |-> "ValueError", value |-> <<>>]
    ELSE IF token_limit - TokenCount(tokenizer, history) < token_offset
    THEN IF history = <<>>
         THEN [raised |-> "IndexError", value |-> <<>>]
         ELSE CutoffMessageHistory(Tail(history), token_limit,
                                   token_offset, tokenizer)
    ELSE [raised |-> "none", value |-> history]

\* ChatgptProvider(token_limit=...) of the Chat under test.
ChatTokenLimits == {18, 19, 29, 34}

InitChat ==
    /\ providers = SingleProvider(0)
    /\ memory_kind = "ephemeral"
    /\ message_history \in ChatHistories
    /\ backend = EmptyBackend("ephemeral")
    /\ next_id = 1
    /\ last = NoObservation
    /\ persist = TRUE
    /\ alive = TRUE
    /\ objects = <<>>

ChatCleanAutoFixerFailedAttempts ==
    /\ Idle
    /\ \E failed_attempts \in 0..MaxFailedAttempts :
          LET res == CleanAutoFixerFailedAttempts(message_history,
                                                  failed_attempts)
          IN Apply("_clean_auto_fixer_failed_attempts",
                   [NoArgs EXCEPT !.auto_fixer_retries = failed_attempts],
                   Result(Memory(memory_kind, res.message_history, backend), 0,
                          res.raised, "", <<>>, <<>>),
                   <<>>)

ChatCutoffMessageHistory ==
    /\ Idle
    /\ \E token_limit \in ChatTokenLimits, token_offset \in TokenOffsets :
          LET res == CutoffMessageHistory(message_history, token_limit,
                         token_offset, OpenAITokenizer("gpt-3.5-turbo-0613"))
          IN Apply("_cutoff_message_history",
                   [NoArgs EXCEPT !.token_limit = token_limit,
                                  !.token_offset = token_offset,
                                  !.tokenizer =
                                      OpenAITokenizer("gpt-3.5-turbo-0613")],
                   Result(CurrentMemory, 0, res.raised, "", <<>>, <<>>),
                   res.value)

NextChat ==
    ChatCleanAutoFixerFailedAttempts \/ ChatCutoffMessageHistory \/ Return

SpecChat == InitChat /\ [][NextChat]_vars

\* ------------------------------------------------------ Flow(providers=...)
\* The provider lists a caller may hand to the constructor: the valid ones,
\* the empty one, and lists of two or three providers drawn from a pool in
\* which two providers share the id "chatgpt".
ProviderPool ==
    {ChatgptProvider("chatgpt", "gpt-3.5-turbo-0613", 48, 1),
     ChatgptProvider("chatgpt", "gpt-3.5-turbo-0301", 34, 0),
     ChatgptProvider("chatgpt-0301", "gpt-3.5-turbo-0301", 34, 0)}

CandidateProviderLists ==
    ProviderLists \cup {<<>>}
    \cup [1..2 -> ProviderPool] \cup [1..3 -> ProviderPool]

CandidateConfigurations ==
    {<<pl, "ephemeral">> : pl \in CandidateProviderLists}
    \cup {<<SingleProvider(r), PersistentKindFor(r)>> : r \in 0..MaxRetries}

\* No Flow object exists: the constructor has not returned one.
NoFlow == "none"

Constructed == memory_kind # NoFlow

InitNoFlow ==
    /\ providers = <<>>
    /\ memory_kind = NoFlow
    /\ message_history = <<>>
    /\ backend = EmptyBackend(NoFlow)
    /\ next_id = 1
    /\ last = NoObservation
    /\ persist = TRUE
    /\ alive = FALSE
    /\ objects = <<>>

\* Flow(providers=provider_list, memory_provider=kind): the validator runs
\* inside the constructor; when it raises no object is created.
FlowInit(provider_list, kind) ==
    LET raised == ValidateProviders(provider_list)
    IN /\ last' = [NoObservation EXCEPT !.op = "Flow", !.raised = raised,
                                        !.args.providers = provider_list]
       /\ IF raised # "none"
          THEN UNCHANGED <<providers, memory_kind, message_history, backend,
                           next_id, persist, alive, objects>>
          ELSE /\ providers' = provider_list
               /\ memory_kind' = kind
               /\ message_history' = <<>>
               /\ backend' = EmptyBackend(kind)
               /\ alive' = TRUE
               /\ UNCHANGED <<next_id, persist, objects>>

NewFlow ==
    /\ Idle
    /\ ~Constructed
    /\ \E c \in CandidateConfigurations : FlowInit(c[1], c[2])

FlowCompletionOfConstructed == Constructed /\ FlowCompletion

NextConstruction == NewFlow \/ FlowCompletionOfConstructed \/ Return

SpecConstruction == InitNoFlow /\ [][NextConstruction]_vars

\* =================================================================== claims
\* Helpers for reading the observation of the last call.
IsCompletion == last.op = "completion"
IsAutoFixer == last.op = "completion_with_auto_fixer"
IsCutoff == last.op = "get_message_history_upto_token_limit"

\* The provider the last call resolved, and its retry budget N.
LastProvider == GetProvider(providers, last.args.provider_id)
LastRetries == LastProvider.provider.retries_on_service_error

\* The provider was called and its last call raised.
ProviderCallFailed ==
    /\ last.provider_calls # <<>>
    /\ last.provider_calls[Len(last.provider_calls)].answer.kind # "text"

RECURSIVE SumOfCosts(_, _)
SumOfCosts(tokenizer, messages) ==
    IF messages = <<>> THEN 0
    ELSE TokenCount(tokenizer, <<Head(messages)>>)
         + SumOfCosts(tokenizer, Tail(messages))

\* C1: when the provider call of Flow.completion raises (the transient error
\* after all retries, or any other error), the exception reaches the caller
\* and the history, in memory and in the backend, is what it was before the
\* call: same length, and the user message of the failed turn is not in it.
C1_RollbackOnFailure ==
    (IsCompletion /\ ProviderCallFailed) =>
        /\ last.raised =
              last.provider_calls[Len(last.provider_calls)].answer.exc
        /\ message_history = last.before
        /\ backend = last.backend_before
        /\ Len(message_history) = Len(last.before)
        /\ \A i \in 1..Len(message_history) :
              ~(message_history[i].role = "user"
                /\ message_history[i].id >= next_id - 1)

C1_Witness ==
    /\ IsCompletion /\ ProviderCallFailed
    /\ memory_kind # "ephemeral"
    /\ last.before # <<>>
    /\ last.raised = "APIError"

\* C2: for every history H and limit L the cutoff returns exactly the k most
\* recent messages of H for some k >= 0 (none skipped), and the sum of their
\* per-message costs is at most L.
C2_CutoffSuffixWithinLimit ==
    IsCutoff =>
        LET H == message_history
            n == Len(H)
            k == Len(last.cutoff)
        IN /\ k <= n
           /\ ElementsOf(last.cutoff) = {H[j] : j \in (n - k + 1)..n}
           /\ SumOfCosts(last.args.tokenizer, last.cutoff) <= last.args.token_limit

\* C2 (amended): for every history H and limit L the cutoff returns exactly
\* the k most recent messages of H for some k >= 0 (none skipped); when
\* L >= 0 the sum of their per-message costs is at most L, and when L < 0
\* the result is empty.
C2_CutoffSuffixWithinNonNegativeLimit ==
    IsCutoff =>
        LET H == message_history
            n == Len(H)
            k == Len(last.cutoff)
            L == last.args.token_limit
        IN /\ k <= n
           /\ ElementsOf(last.cutoff) = {H[j] : j \in (n - k + 1)..n}
           /\ L >= 0 => SumOfCosts(last.args.tokenizer, last.cutoff) <= L
           /\ L < 0 => last.cutoff = <<>>

C2_Witness ==
    /\ IsCutoff
    /\ Len(last.cutoff) >= 2
    /\ Len(last.cutoff) < Len(message_history)

\* C3: the cutoff is maximal: when it leaves out a message of H, the cost of
\* the returned messages plus the cost of the next-older message exceeds L.
C3_CutoffMaximal ==
    (IsCutoff /\ Len(last.cutoff) < Len(message_history)) =>
        LET H == message_history
            next_older == H[Len(H) - Len(last.cutoff)]
        IN SumOfCosts(last.args.tokenizer, last.cutoff)
           + TokenCount(last.args.tokenizer, <<next_older>>)
           > last.args.token_limit

C3_Witness ==
    /\ IsCutoff
    /\ Len(last.cutoff) < Len(message_history)
    /\ last.cutoff # <<>>
    /\ SumOfCosts(last.args.tokenizer, last.cutoff) = last.args.token_limit

\* C4: the cutoff returns its messages oldest first: any two returned
\* messages keep the relative order they have in the stored history.
C4_CutoffChronological ==
    IsCutoff =>
        \A i, j \in 1..Len(last.cutoff) :
            i < j => IndexOf(message_history, last.cutoff[i], 1)
                     < IndexOf(message_history, last.cutoff[j], 1)

\* C5: with retries_on_service_error = N and a provider that raises the
\* service-unavailable error on every call, completion calls the provider
\* exactly N+1 times and raises ServiceUnavailableError; it never calls the
\* provider more than N+1 times.
AlwaysUnavailable(script) ==
    \A i \in 1..Len(script) : script[i].kind = "unavailable"

C5_RetryExhaustion ==
    (IsCompletion /\ LastProvider.raised = "none") =>
        /\ Len(last.provider_calls) <= LastRetries + 1
        /\ AlwaysUnavailable(last.args.script) =>
              /\ Len(last.provider_calls) = LastRetries + 1
              /\ last.raised = "ServiceUnavailableError"

C5_Witness ==
    /\ IsCompletion /\ LastProvider.raised = "none"
    /\ AlwaysUnavailable(last.args.script)
    /\ LastRetries = 2
    /\ Len(last.provider_calls) = 3

\* C6: when the provider raises service-unavailable on its first k calls,
\* k <= N, and returns a text on call k+1, completion returns that text
\* after exactly k+1 provider calls and the turn is recorded as a success:
\* the user message and the assistant message are both in the history.
FailsThenAnswers(script, k) ==
    /\ \A i \in 1..k : ScriptAt(script, i).kind = "unavailable"
    /\ ScriptAt(script, k + 1).kind = "text"

C6_RetrySuccess ==
    (IsCompletion /\ LastProvider.raised = "none") =>
        \A k \in 0..LastRetries :
            FailsThenAnswers(last.args.script, k) =>
                LET text == ScriptAt(last.args.script, k + 1).text
                    pid == LastProvider.provider.provider_id
                IN /\ last.raised = "none"
                   /\ last.value = text
                   /\ Len(last.provider_calls) = k + 1
                   /\ message_history = last.before \o
                        <<ChatMessage(next_id - 2, pid, last.args.prompt,
                                      "user", FALSE),
                          ChatMessage(next_id - 1, pid, text,
                                      "assistant", FALSE)>>

C6_Witness ==
    /\ IsCompletion /\ LastProvider.raised = "none"
    /\ FailsThenAnswers(last.args.script, 1)
    /\ last.raised = "none"
    /\ Len(last.provider_calls) = 2

\* C7: a provider error other than service-unavailable is never retried:
\* whatever N is, the call that raised it is the last call of the retry loop
\* and the same exception propagates to the caller.
FailsThenErrors(script, k) ==
    /\ \A i \in 1..k : ScriptAt(script, i).kind = "unavailable"
    /\ ScriptAt(script, k + 1).kind = "error"

C7_NoRetryOnOtherError ==
    (IsCompletion /\ LastProvider.raised = "none") =>
        \A k \in 0..LastRetries :
            FailsThenErrors(last.args.script, k) =>
                /\ Len(last.provider_calls) = k + 1
                /\ Cardinality({i \in 1..Len(last.provider_calls) :
                       last.provider_calls[i].answer.kind = "error"}) = 1
                /\ last.raised = ScriptAt(last.args.script, k + 1).exc

C7_Witness ==
    /\ IsCompletion /\ LastProvider.raised = "none"
    /\ LastRetries >= 1
    /\ FailsThenErrors(last.args.script, 0)
    /\ last.raised = "APIError"

\* The messages of a history that are not marked temporary, in order.
NonTemporary(history) == SelectSeq(history, LAMBDA m : ~m.temporary)

\* The turn a successful auto-fixer call leaves at the end of the history.
SuccessfulTurn ==
    LET pid == LastProvider.provider.provider_id
    IN <<ChatMessage(next_id - Len(last.fixer_calls) - 1, pid,
                     last.args.prompt, "user", FALSE),
         ChatMessage(next_id - 1, pid, last.value, "assistant", FALSE)>>

\* C8: after k failed auto-fixer attempts followed by one success the
\* history is exactly: all messages that were in it before the call, then
\* the user prompt, then the final successful assistant response.
C8_TemporaryCleanup ==
    (IsAutoFixer /\ last.raised = "none") =>
        message_history = last.before \o SuccessfulTurn

\* C8 (amended): after k failed auto-fixer attempts followed by one success
\* the history is exactly: the messages that were in it before the call and
\* were not marked temporary, then the user prompt, then the final
\* successful assistant response; every intermediate message of the failed
\* attempts is gone, and so is every temporary message left by earlier calls.
C8_TemporaryCleanupOfNonTemporary ==
    (IsAutoFixer /\ last.raised = "none") =>
        /\ Len(last.fixer_calls) <= last.args.auto_fixer_retries + 1
        /\ message_history = NonTemporary(last.before) \o SuccessfulTurn

C8_Witness ==
    /\ IsAutoFixer /\ last.raised = "none"
    /\ Len(last.fixer_calls) >= 2
    /\ NonTemporary(last.before) # <<>>

\* C9: with auto_fixer_retries = N and an auto_fixer that rejects every
\* response, the auto_fixer is applied exactly N+1 times, once per provider
\* response, and InvalidResponseError is raised; with N = 0 a single invalid
\* response raises at once.
AlwaysInvalid(fixer) == \A i \in 1..Len(fixer) : fixer[i] = "invalid"

TextAnswers(log) == SelectSeq(log, LAMBDA c : c.answer.kind = "text")

C9_AutoFixerExhaustion ==
    (/\ IsAutoFixer /\ LastProvider.raised = "none"
     /\ AlwaysInvalid(last.args.fixer)
     /\ ~ProviderCallFailed) =>
        /\ Len(last.fixer_calls) = last.args.auto_fixer_retries + 1
        /\ Len(TextAnswers(last.provider_calls)) = Len(last.fixer_calls)
        /\ \A i \in 1..Len(last.fixer_calls) :
              last.fixer_calls[i].response
                 = TextAnswers(last.provider_calls)[i].answer.text
        /\ last.raised = "InvalidResponseError"

C9_Witness ==
    /\ IsAutoFixer /\ LastProvider.raised = "none"
    /\ AlwaysInvalid(last.args.fixer)
    /\ last.args.auto_fixer_retries = 2
    /\ Len(last.fixer_calls) = 3
    /\ last.raised = "InvalidResponseError"

\* C10: when the auto_fixer rejects a response, the string form of its
\* InvalidResponseError is the prompt of the next attempt: the message list
\* passed to the provider on the next attempt contains a message whose
\* content is that string.
C10_FixRequestIsNextPrompt ==
    IsAutoFixer =>
        \A j \in 1..Len(last.provider_calls) :
            TextAnswers(SubSeq(last.provider_calls, 1, j - 1)) # <<>> =>
                \E m \in ElementsOf(last.provider_calls[j].messages) :
                    m.content = FixRequest

\* C11: constructing a Flow with an empty provider list, or with a list in
\* which two providers share a provider_id, raises InvalidProvidersError and
\* yields no Flow; every Flow that exists has at least one provider and
\* pairwise distinct provider ids.
HasDuplicateIds(provider_list) ==
    \E i, j \in 1..Len(provider_list) :
        i # j /\ provider_list[i].provider_id = provider_list[j].provider_id

C11_InvalidProvidersRejected ==
    /\ (last.op = "Flow" /\ (last.args.providers = <<>>
                              \/ HasDuplicateIds(last.args.providers))) =>
          /\ last.raised = "InvalidProvidersError"
          /\ ~Constructed
    /\ Constructed =>
          /\ Len(providers) >= 1
          /\ ~HasDuplicateIds(providers)

C11_Witness ==
    /\ last.op = "Flow"
    /\ Len(last.args.providers) = 3
    /\ last.args.providers[1].provider_id = last.args.providers[3].provider_id
    /\ last.args.providers[1].provider_id # last.args.providers[2].provider_id
    /\ last.raised = "InvalidProvidersError"

\* C12: provider resolution in completion.  A given provider_id that matches
\* no configured provider raises ProviderNotFoundError; an omitted
\* provider_id selects the only provider when exactly one is configured and
\* raises ProviderMissingInCompletionError when more than one is; a given
\* matching provider_id selects the provider with that id.  The selected
\* provider is the one whose id the messages of the turn carry.
ResolutionErrors == {"ProviderNotFoundError", "ProviderMissingInCompletionError"}

ConfiguredIds == {providers[i].provider_id : i \in 1..Len(providers)}

\* The messages the last call appended to the history it found.
Appended == SubSeq(message_history, Len(last.before) + 1, Len(message_history))

TurnOf(pid) ==
    /\ last.raised \notin ResolutionErrors
    /\ last.raised = "none" =>
          /\ Appended # <<>>
          /\ \A i \in 1..Len(Appended) : Appended[i].provider_id = pid

Unresolved(err) ==
    /\ last.raised = err
    /\ last.provider_calls = <<>>
    /\ message_history = last.before

C12_ProviderResolution ==
    IsCompletion =>
        LET pid == last.args.provider_id
        IN /\ (pid # "None" /\ pid \notin ConfiguredIds) =>
                 Unresolved("ProviderNotFoundError")
           /\ (pid = "None" /\ Len(providers) > 1) =>
                 Unresolved("ProviderMissingInCompletionError")
           /\ (pid = "None" /\ Len(providers) = 1) =>
                 TurnOf(providers[1].provider_id)
           /\ (pid \in ConfiguredIds) => TurnOf(pid)

C12_Witness ==
    /\ IsCompletion
    /\ Len(providers) = 2
    /\ last.args.provider_id = providers[2].provider_id
    /\ last.raised = "none"
    /\ Appended # <<>>

\* C13: a successful completion(prompt) appends exactly two messages to the
\* end of the history, the user message with the prompt and then the
\* assistant message with the provider's response, both non-temporary and
\* with the selected provider's id; the earlier messages stay as they were,
\* and the response text is returned.
C13_SuccessAppendsTurn ==
    (IsCompletion /\ last.raised = "none") =>
        LET pid == LastProvider.provider.provider_id
            calls == last.provider_calls
            response == calls[Len(calls)].answer
        IN /\ calls # <<>>
           /\ response.kind = "text"
           /\ last.value = response.text
           /\ Len(message_history) = Len(last.before) + 2
           /\ SubSeq(message_history, 1, Len(last.before)) = last.before
           /\ Appended =
                <<[id |-> next_id - 2, provider_id |-> pid,
                   content |-> last.args.prompt, role |-> "user",
                   temporary |-> FALSE],
                  [id |-> next_id - 1, provider_id |-> pid,
                   content |-> response.text, role |-> "assistant",
                   temporary |-> FALSE]>>

C13_Witness ==
    /\ IsCompletion /\ last.raised = "none"
    /\ Len(last.before) >= 2
    /\ last.args.prompt = "What is the capital of France?"
    /\ last.value = "Paris"

\* C14: when an exception is raised at any step of completion after the user
\* message was inserted (computing the token-bounded history, calling the
\* provider, inserting the assistant message), the user message is removed
\* again and the exception re-raised: after a failed turn every message of
\* the history was in it before the call.
C14_RollbackAtAnyStep ==
    (IsCompletion /\ LastProvider.raised = "none" /\ last.raised # "none") =>
        /\ ElementsOf(message_history) \subseteq ElementsOf(last.before)
        /\ Len(message_history) = Len(last.before)

\* C15: when the most recent message alone costs more than the token limit
\* the cutoff returns the empty sequence and raises nothing; and completion,
\* when the new user message alone costs more than token_limit - token_offset,
\* still calls the provider, every time with an empty message list.
UserMessageCost ==
    TokenCount(LastProvider.provider.tokenizer,
               <<ChatMessage(0, LastProvider.provider.provider_id,
                             last.args.prompt, "user", FALSE)>>)

UserMessageOverBudget ==
    /\ IsCompletion /\ LastProvider.raised = "none"
    /\ UserMessageCost > LastProvider.provider.token_limit - last.args.token_offset

NewestOverLimit ==
    /\ IsCutoff /\ message_history # <<>>
    /\ TokenCount(last.args.tokenizer, <<message_history[Len(message_history)]>>)
          > last.args.token_limit

C15_OversizedNewestGivesEmpty ==
    /\ NewestOverLimit => (last.cutoff = <<>> /\ last.raised = "none")
    /\ UserMessageOverBudget =>
          /\ last.provider_calls # <<>>
          /\ \A i \in 1..Len(last.provider_calls) :
                last.provider_calls[i].messages = <<>>

C15_Witness ==
    /\ UserMessageOverBudget
    /\ last.before # <<>>
    /\ last.raised = "none"
    /\ last.value = "Paris"

\* C16: for every backend, after any sequence of insert_message,
\* insert_message_batch, remove_message and clean_temporary_message_history
\* calls the message sequence load_message_history would read from the
\* backend equals the in-memory message_history: the same messages in the
\* same order.
C16_BackendMirrorsMemory ==
    \A mem \in LoadMessageHistory(CurrentMemory) :
        mem.message_history = message_history

\* C17: round-trip persistence for every backend: after messages were
\* inserted, the in-memory list discarded and load_message_history called,
\* the in-memory history equals the one before the discard, order and
\* content preserved.
IsReload == last.op = "load_message_history"

C17_RoundTrip ==
    IsReload => message_history = last.before

\* ---------------------------------------------------------------- C21..C25
\* The backend holds nothing for the chat: no document, no Redis list, no
\* row.  EphermalMemory never holds anything outside the in-memory list.
NoStoredData(kind, store) ==
    CASE kind = "file" -> ~store.exists
      [] kind = "redis" -> store.entries = <<>>
      [] kind = "sql" ->
            \A i \in 1..Len(store.entries) : store.entries[i].chat_id # ChatId
      [] OTHER -> TRUE

\* The unstructured messages the backend holds for the chat.
StoredContent(store) ==
    {IF "message" \in DOMAIN e THEN e.message ELSE e :
        e \in ElementsOf(store.entries)}

\* The history holds exactly the messages of the store, each one once.
HoldsExactly(history, store) ==
    /\ {Unstructure(history[i]) : i \in 1..Len(history)} = StoredContent(store)
    /\ Len(history) = Len(store.entries)

\* load_message_history was called on an empty in-memory list: by the
\* constructor of a new object, or after the caller emptied the list.
IsLoad == last.op \in {"load_message_history", "Memory"}

IsCleanup == last.op = "cleanup"

\* C22: for every backend, after cleanup() returns the backend holds no data
\* for the chat and message_history is empty.
C22_CleanupClearsEverything ==
    (IsCleanup /\ last.raised = "none") =>
        /\ NoStoredData(memory_kind, backend)
        /\ message_history = <<>>

\* cleanup() ran: called by the caller, or by the finalizer of an object
\* that does not persist.
CleanupRan == IsCleanup \/ (last.op = "__del__" /\ ~persist)

\* C23: cleanup() is idempotent for every backend: run on the empty or
\* absent backend state that a cleanup() leaves (explicitly and then again
\* by the finalizer of a persist=False object), it leaves that state as it
\* is.
C23_CleanupIdempotent ==
    (CleanupRan /\ NoStoredData(memory_kind, last.backend_before)) =>
        backend = last.backend_before

C23_Witness ==
    /\ last.op = "__del__"
    /\ ~persist
    /\ memory_kind = "file"
    /\ ~last.backend_before.exists
    /\ ~backend.exists

IsDiscard == last.op = "__del__"
IsOpen == last.op = "Memory"

IsCleanTemporary == last.op = "clean_temporary_message_history"

\* C25: clean_temporary_message_history removes every temporary message from
\* the in-memory list and from the backend and keeps the other messages in
\* their order: afterwards the history is the non-temporary messages of the
\* history before, no message of it is temporary, and the backend holds
\* exactly these messages.
C25_TemporariesRemoved ==
    IsCleanTemporary =>
        /\ last.raised = "none"
        /\ message_history = SelectSeq(last.before, LAMBDA m : ~m.temporary)
        /\ \A i \in 1..Len(message_history) : ~message_history[i].temporary
        /\ \A e \in StoredContent(backend) : ~e.temporary
        /\ memory_kind # "ephemeral" => HoldsExactly(message_history, backend)

C25_Witness ==
    /\ IsCleanTemporary
    /\ memory_kind = "sql"
    /\ Len(last.before) = 4
    /\ ~last.before[1].temporary
    /\ last.before[2].temporary
    /\ last.before[3].temporary
    /\ ~last.before[4].temporary
    /\ Len(message_history) = 2

\* ---------------------------------------------------------------- C26, C27
IsFunctions == last.op = "completion_with_functions"

UnderlyingError(response) ==
    IF response = PlainAnswer THEN "ValueError"
    ELSE "InvalidFunctionCallResponseError"

\* C27: when completion_with_functions gives up, the InvalidResponseError it
\* raises has as its cause the underlying error of the last failed attempt:
\* the parse error when that response was no function invocation,
\* InvalidFunctionCallResponseError when it named a function that was not
\* offered or gave arguments that fail validation; such an invocation is a
\* failed attempt in required and in optional mode.
C27_GiveUpCarriesLastCause ==
    IsFunctions =>
        /\ last.raised = "InvalidResponseError" =>
              last.cause =
                  UnderlyingError(last.fixer_calls[Len(last.fixer_calls)].response)
        /\ \A i \in 1..Len(last.fixer_calls) :
              last.fixer_calls[i].response \in {UnknownFunction, SayHeyNumber} =>
                  last.fixer_calls[i].verdict = "invalid"

C27_Witness ==
    /\ IsFunctions
    /\ last.raised = "InvalidResponseError"
    /\ Len(last.fixer_calls) = 2
    /\ last.fixer_calls[1].response = PlainAnswer
    /\ last.fixer_calls[2].response = UnknownFunction
    /\ last.cause = "InvalidFunctionCallResponseError"

\* --------------------------------------------------------------------- C28
IsWrite == last.op = "_write_memory_file"

\* Every insert_message that was started has returned.
AllReturned == \A w \in Writers : objects[w].pc = "idle"

\* The messages inserted through either object.
InsertedMessages ==
    UNION {ElementsOf(objects[w].message_history) : w \in Writers}

\* C28: the file-like backends write back the document they read plus the
\* new message, with nothing guarding the read-modify-write: a write puts
\* its own message in the document and drops every message that another
\* object stored after this object read the document (the last writer
\* wins).  The witness is the interleaving the claim speaks of: both objects
\* read the same document, both inserts return, and the document lacks a
\* message that was inserted.
C28_LastWriterWins ==
    IsWrite =>
        /\ Unstructure(last.msg) \in ElementsOf(backend.entries)
        /\ \A e \in ElementsOf(last.backend_before.entries) :
              e \notin ElementsOf(last.read) =>
                  e \notin ElementsOf(backend.entries)

C28_Witness ==
    /\ IsWrite
    /\ AllReturned
    /\ objects[1].data = objects[2].data
    /\ \E m \in InsertedMessages :
          Unstructure(m) \notin ElementsOf(backend.entries)

\* ---------------------------------------------------------------- C29, C30
IsChatClean == last.op = "_clean_auto_fixer_failed_attempts"

\* C29: Chat._clean_auto_fixer_failed_attempts(failed_attempts=k) on a
\* history of length n >= 2k+2 leaves the first n-2k-1 messages followed by
\* the last one: the 2k messages between the user prompt and the final
\* response are removed and nothing else; with k = 0 the history is
\* unchanged.
C29_FailedAttemptsRemoved ==
    LET n == Len(last.before)
        k == last.args.auto_fixer_retries
    IN (IsChatClean /\ n >= 2 * k + 2) =>
           /\ last.raised = "none"
           /\ Len(message_history) = n - 2 * k
           /\ \A i \in 1..(n - 2 * k - 1) : message_history[i] = last.before[i]
           /\ message_history[n - 2 * k] = last.before[n]
           /\ k = 0 => message_history = last.before

C29_Witness ==
    /\ IsChatClean
    /\ last.args.auto_fixer_retries = 2
    /\ Len(last.before) = 6
    /\ Len(message_history) = 2
    /\ last.before[1] # last.before[3]
    /\ last.before[6] # last.before[4]

IsChatCutoff == last.op = "_cutoff_message_history"

\* The last k messages of a list.
Suffix(seq, k) == SubSeq(seq, Len(seq) - k + 1, Len(seq))

\* The suffix leaves token_offset tokens below the limit of the call.
LeavesOffset(messages) ==
    last.args.token_limit - TokenCount(last.args.tokenizer, messages)
        >= last.args.token_offset

\* What C30 says of a call that returned last.cutoff.
LongestSuffixReturned ==
    /\ last.raised = "none"
    /\ \E k \in 0..Len(last.before) :
          /\ last.cutoff = Suffix(last.before, k)
          /\ LeavesOffset(Suffix(last.before, k))
          /\ \A j \in (k + 1)..Len(last.before) :
                ~LeavesOffset(Suffix(last.before, j))
    /\ message_history = last.before

\* C30 as stated: for every history Chat._cutoff_message_history returns,
\* without raising, the longest suffix that leaves token_offset tokens, and
\* the stored history is not modified.
C30_CutoffLongestSuffix ==
    IsChatCutoff => LongestSuffixReturned

\* The tokenizer can encode every message of the history.
Encodable(history) ==
    \A i \in 1..Len(history) : history[i].content \notin SpecialPrompts

\* C30 (amended): when the tokenizer can encode every message and the empty
\* history itself leaves token_offset tokens, the cutoff returns the longest
\* such suffix without raising; otherwise it raises; the stored history is
\* not modified in either case.
C30_CutoffLongestSuffixWhenOneFits ==
    IsChatCutoff =>
        /\ message_history = last.before
        /\ IF Encodable(last.before) /\ LeavesOffset(<<>>)
           THEN LongestSuffixReturned
           ELSE last.raised # "none"

C30_Witness ==
    /\ IsChatCutoff
    /\ last.raised = "none"
    /\ Len(last.before) = 6
    /\ Len(last.cutoff) = 2

\* C18: insert_message_batch([m1, ..., mn]) leaves the same in-memory history
\* and the same backend state as insert_message(m1); ...; insert_message(mn)
\* from the same starting state: the messages are appended at the end in
\* the order given.
IsBatch == last.op = "insert_message_batch"

RECURSIVE InsertEach(_, _, _)
InsertEach(mem, msgs, i) ==
    IF i > Len(msgs) \/ mem.raised # "none" THEN mem
    ELSE InsertEach(InsertMessage(mem, msgs[i]), msgs, i + 1)

OneByOne ==
    InsertEach(Memory(memory_kind, last.before, last.backend_before),
               last.args.msgs, 1)

IsRemove == last.op = "remove_message"

Removed == last.args.msgs[1]

\* The id of a message, of its stored form, or of its table row.
EntryId(e) == IF "_id" \in DOMAIN e THEN e["_id"] ELSE e["id"]

DropFirstWithId(seq, id) ==
    LET found == {i \in 1..Len(seq) : EntryId(seq[i]) = id}
        first == CHOOSE i \in found : \A j \in found : i <= j
    IN IF found = {} THEN seq
       ELSE [j \in 1..(Len(seq) - 1) |-> IF j < first THEN seq[j] ELSE seq[j + 1]]

C19_RemoveExactlyOneById ==
    (IsRemove /\ Removed \in ElementsOf(last.before)) =>
        /\ last.raised = "none"
        /\ Len(message_history) = Len(last.before) - 1
        /\ message_history = DropFirstWithId(last.before, Removed.id)
        /\ backend.entries = DropFirstWithId(last.backend_before.entries, Removed.id)
        /\ memory_kind # "ephemeral" =>
              Len(backend.entries) = Len(last.backend_before.entries) - 1

C19_Witness ==
    /\ IsRemove /\ Removed \in ElementsOf(last.before)
    /\ memory_kind = "redis"
    /\ Len(message_history) >= 2
    /\ \E i \in 1..Len(message_history) :
          /\ message_history[i].id < Removed.id
          /\ [message_history[i] EXCEPT !.id = Removed.id] = Removed

\* C20: remove_message(m) for a message m that is not in the history raises
\* the not-found error of list.remove (ValueError) to the caller and leaves
\* the in-memory list and the backend as they were.
C20_RemoveAbsentRaises ==
    (IsRemove /\ Removed \notin ElementsOf(last.before)) =>
        /\ last.raised = "ValueError"
        /\ message_history = last.before
        /\ backend = last.backend_before

C20_Witness ==
    /\ IsRemove /\ Removed \notin ElementsOf(last.before)
    /\ memory_kind = "sql"
    /\ \E i \in 1..Len(last.before) : last.before[i].id = Removed.id
    /\ last.raised = "ValueError"

\* ---------------------------------------------------------------- C31..C39
\* C31: computing the token-bounded history is read-only:
\* get_message_history_upto_token_limit changes neither message_history nor
\* the backend; the messages a completion leaves out of its request stay in
\* the stored history, and a call with a budget that covers the whole
\* history returns them again.
C31_CutoffReadOnly ==
    /\ IsCutoff =>
          /\ message_history = last.before
          /\ backend = last.backend_before
          /\ ElementsOf(GetMessageHistoryUptoTokenLimit(message_history,
                  SumOfCosts(last.args.tokenizer, message_history),
                  last.args.tokenizer)) = ElementsOf(message_history)
    /\ (IsCompletion /\ last.raised = "none") =>
          SubSeq(message_history, 1, Len(last.before)) = last.before

C31_Witness ==
    /\ IsCutoff
    /\ memory_kind # "ephemeral"
    /\ Len(message_history) = 3
    /\ Len(last.cutoff) = 1
    /\ message_history = last.before

\* The assistant messages the rejected responses of the last call were
\* stored as, the first with the given id.
RejectedResponses(first_id) ==
    [i \in 1..Len(last.fixer_calls) |->
        ChatMessage(first_id + i - 1, LastProvider.provider.provider_id,
                    last.fixer_calls[i].response, "assistant", TRUE)]

\* C32: when completion_with_auto_fixer raises InvalidResponseError because
\* all N+1 attempts failed validation, nothing is rolled back or cleaned:
\* the history is the history before the call, then the user prompt (not
\* temporary), then the N+1 rejected assistant responses, each temporary;
\* a later auto-fixer call that succeeds leaves no temporary message.
C32_GiveUpKeepsAttempts ==
    /\ (IsAutoFixer /\ last.raised = "InvalidResponseError") =>
          LET n == last.args.auto_fixer_retries + 1
              user_id == next_id - n - 1
          IN /\ Len(last.fixer_calls) = n
             /\ message_history =
                   last.before
                   \o <<ChatMessage(user_id, LastProvider.provider.provider_id,
                                    last.args.prompt, "user", FALSE)>>
                   \o RejectedResponses(user_id + 1)
             /\ memory_kind # "ephemeral" =>
                   HoldsExactly(message_history, backend)
    /\ (IsAutoFixer /\ last.raised = "none") =>
          \A i \in 1..Len(message_history) : ~message_history[i].temporary

C32_Witness ==
    /\ IsAutoFixer
    /\ last.raised = "InvalidResponseError"
    /\ memory_kind # "ephemeral"
    /\ last.args.auto_fixer_retries = 1
    /\ Len(last.before) = 1
    /\ Len(message_history) = 4

\* The exception the last provider call of the last operation raised.
LastProviderError ==
    LET answer == last.provider_calls[Len(last.provider_calls)].answer
    IN IF answer.kind = "unavailable" THEN "ServiceUnavailableError"
       ELSE answer.exc

\* C33: a provider call that raises during any attempt of
\* completion_with_auto_fixer propagates to the caller and nothing is rolled
\* back: the initial user message and the temporary assistant messages of
\* the earlier attempts remain in the history and in the backend.
C33_ProviderErrorNoRollback ==
    (IsAutoFixer /\ ProviderCallFailed) =>
        LET user_id == next_id - Len(last.fixer_calls) - 1
        IN /\ last.raised = LastProviderError
           /\ message_history =
                 last.before
                 \o <<ChatMessage(user_id, LastProvider.provider.provider_id,
                                  last.args.prompt, "user", FALSE)>>
                 \o RejectedResponses(user_id + 1)
           /\ memory_kind # "ephemeral" =>
                 HoldsExactly(message_history, backend)

C33_Witness ==
    /\ IsAutoFixer
    /\ ProviderCallFailed
    /\ last.raised = "ServiceUnavailableError"
    /\ Len(last.fixer_calls) = 1
    /\ memory_kind # "ephemeral"
    /\ Len(message_history) = Len(last.before) + 2
    /\ message_history[Len(message_history)].temporary

\* The auto_fixer of the last call raised something other than
\* InvalidResponseError on some response.
AutoFixerRaisedOther ==
    \E i \in 1..Len(last.fixer_calls) : last.fixer_calls[i].verdict = "error"

\* C34: when the auto_fixer raises an exception that is not an
\* InvalidResponseError, completion_with_auto_fixer propagates it at once:
\* no further attempt is made, and the assistant response of that attempt
\* is not inserted (the user prompt and the earlier rejected responses are).
C34_OtherFixerErrorPropagates ==
    (IsAutoFixer /\ AutoFixerRaisedOther) =>
        LET n == Len(last.fixer_calls)
            user_id == next_id - n - 1
        IN /\ last.raised = "AutoFixerError"
           /\ \A i \in 1..n : last.fixer_calls[i].verdict = "error" => i = n
           /\ Cardinality({j \in 1..Len(last.provider_calls) :
                 last.provider_calls[j].answer.kind = "text"}) = n
           /\ message_history =
                 last.before
                 \o <<ChatMessage(user_id, LastProvider.provider.provider_id,
                                  last.args.prompt, "user", FALSE)>>
                 \o SubSeq(RejectedResponses(user_id + 1), 1, n - 1)
           /\ memory_kind # "ephemeral" =>
                 HoldsExactly(message_history, backend)

C34_Witness ==
    /\ IsAutoFixer
    /\ last.raised = "AutoFixerError"
    /\ last.args.auto_fixer_retries = 2
    /\ Len(last.fixer_calls) = 2
    /\ last.fixer_calls[2].verdict = "error"
    /\ Len(message_history) = Len(last.before) + 2

IsInsert == last.op = "insert_message"

\* C35: insert_message and remove_message change the in-memory list first
\* and the backend second, and undo nothing when the backend raises: after
\* a failed backend write of insert_message the in-memory list ends with the
\* message while the backend is as it was, and after a failed backend
\* removal the message is gone from the in-memory list only.
C35_MemoryFirstNoUndo ==
    /\ (IsInsert /\ last.raised # "none") =>
          /\ Len(message_history) = Len(last.before) + 1
          /\ SubSeq(message_history, 1, Len(last.before)) = last.before
          /\ message_history[Len(message_history)].id = next_id - 1
          /\ backend = last.backend_before
          /\ Unstructure(message_history[Len(message_history)])
                \notin ElementsOf(backend.entries)
    /\ (IsRemove /\ last.raised # "none"
           /\ IndexOf(last.before, Removed, 1) # 0) =>
          /\ message_history = ListRemove(last.before, Removed)
          /\ backend = last.backend_before

C35_Witness ==
    /\ IsInsert
    /\ memory_kind = "file"
    /\ last.raised = "FileNotFoundError"
    /\ ~backend.exists
    /\ Len(message_history) = 2

\* C36: when the provider cannot be resolved (ProviderNotFoundError,
\* ProviderMissingInCompletionError), completion and
\* completion_with_auto_fixer raise before anything else happens: no message
\* is inserted, no provider and no auto_fixer is called, and the history in
\* memory and in the backend is what it was.
C36_UnresolvedProviderNoEffect ==
    ((IsCompletion \/ IsAutoFixer) /\ LastProvider.raised # "none") =>
        /\ last.raised = LastProvider.raised
        /\ last.raised \in ResolutionErrors
        /\ last.provider_calls = <<>>
        /\ last.fixer_calls = <<>>
        /\ message_history = last.before
        /\ backend = last.backend_before

C36_Witness ==
    /\ IsAutoFixer
    /\ last.raised = "ProviderNotFoundError"
    /\ memory_kind # "ephemeral"
    /\ last.before # <<>>
    /\ message_history = last.before

\* C37: every call ends after a bounded number of calls of its
\* collaborators: with R = retries_on_service_error and N =
\* auto_fixer_retries, completion calls the provider at most R + 1 times,
\* and completion_with_auto_fixer calls the auto_fixer at most N + 1 times
\* and the provider at most (N + 1) * (R + 1) times.
C37_BoundedCalls ==
    /\ (IsCompletion /\ LastProvider.raised = "none") =>
          Len(last.provider_calls) <= LastRetries + 1
    /\ (IsAutoFixer /\ LastProvider.raised = "none") =>
          /\ Len(last.fixer_calls) <= last.args.auto_fixer_retries + 1
          /\ Len(last.provider_calls)
                <= (last.args.auto_fixer_retries + 1) * (LastRetries + 1)

C37_Witness ==
    /\ IsAutoFixer
    /\ LastProvider.raised = "none"
    /\ LastRetries = 1
    /\ last.args.auto_fixer_retries = 2
    /\ Len(last.fixer_calls) = 3
    /\ Len(last.provider_calls) = 4
    /\ last.raised = "InvalidResponseError"

\* What a Redis database or an SQL table holds for the conversations other
\* than the object's own.
OtherConversations(kind, store) ==
    IF kind = "redis" THEN store.other_keys
    ELSE SelectSeq(store.entries, LAMBDA r : r.chat_id # ChatId)

\* C38: in the Redis and SQL backends insert_message, remove_message and
\* cleanup() of an object bound to one conversation id change only the data
\* stored under that id: what the database holds for every other
\* conversation id is unchanged.
C38_OtherConversationsUntouched ==
    (IsInsert \/ IsRemove \/ IsCleanup) =>
        /\ OtherConversations(memory_kind, backend)
              = OtherConversations(memory_kind, last.backend_before)
        /\ OtherConversations(memory_kind, backend)
              = OtherConversations(memory_kind, SharedBackend(memory_kind))

C38_Witness ==
    /\ IsCleanup
    /\ memory_kind = "sql"
    /\ last.backend_before # backend
    /\ Len(last.backend_before.entries) = 4
    /\ Len(backend.entries) = 2

\* C39: the OpenAI tokenizer counts a list as the sum of its messages'
\* costs plus 3 priming tokens, once; the cutoff adds up one-message lists,
\* so it counts the priming once per message.  Every non-empty list the
\* cutoff returns for a limit L therefore has a list-level token count of at
\* most L, and a non-empty request that completion sends never exceeds
\* token_limit - token_offset.
C39_CutoffCountsPrimingPerMessage ==
    /\ (IsCutoff /\ last.cutoff # <<>>) =>
          LET tokenizer == last.args.tokenizer
              k == Len(last.cutoff)
          IN /\ SumOfCosts(tokenizer, last.cutoff)
                  = TokenCount(tokenizer, last.cutoff) + 3 * (k - 1)
             /\ TokenCount(tokenizer, last.cutoff) <= last.args.token_limit
    /\ (IsCompletion /\ LastProvider.raised = "none") =>
          \A i \in 1..Len(last.provider_calls) :
              LET messages == last.provider_calls[i].messages
              IN messages # <<>> =>
                    TokenCount(LastProvider.provider.tokenizer, messages)
                        <= LastProvider.provider.token_limit
                           - last.args.token_offset

C39_Witness ==
    /\ IsCutoff
    /\ Len(last.cutoff) = 2
    /\ Len(message_history) = 3
    /\ SumOfCosts(last.args.tokenizer, last.cutoff) = last.args.token_limit
    /\ TokenCount(last.args.tokenizer, last.cutoff) = last.args.token_limit - 3

====
